---- MODULE Spec2Model ----
(***************************************************************************)
(* Domain rule engine of the warehouse system (warehouse_final.py):        *)
(* the Product entity (stock bounds, pricing bounds, low-stock observer    *)
(* notification) and the Order entity (items, status state machine).       *)
(*                                                                         *)
(* Methods are operators over entity records.  A method that can raise     *)
(* returns the entity it leaves behind together with the error; an action  *)
(* of a specification applies one method to the entity held in a variable  *)
(* and records the call (its argument, the entity before it, its outcome)  *)
(* in productOp / orderOp, so that a property of a call is a property of   *)
(* the state after it.                                                     *)
(***************************************************************************)
EXTENDS Integers, Sequences, FiniteSets, TLC

VARIABLES
    product,     \* the Product under test
    productOp,   \* the last call made on product
    detached,    \* observers detached from product and not attached again
    order,       \* the Order under test
    orderOp,     \* the last call made on order
    trail,       \* the statuses order has had, oldest first
    employee,    \* the Employee under test
    employeeOp,  \* the last call made on employee
    moneyOp,     \* the last operation made on Money values
    chain,       \* the decorators wrapped around product, innermost first
    chainOp,     \* the last call made on the outermost decorator
    report,      \* the generate_report() run of a ReportGenerator
    products,    \* the product repository: id -> Product
    orders,      \* the order repository: id -> Order
    taken,       \* what process_order took the stock from, and what came after
    useCaseOp    \* the last use-case call

vars ==
    <<product, productOp, detached, order, orderOp, trail, employee, employeeOp,
      moneyOp, chain, chainOp, report, products, orders, taken, useCaseOp>>

productVars == <<product, productOp, detached>>
orderVars == <<order, orderOp, trail>>
employeeVars == <<employee, employeeOp>>
moneyVars == <<moneyOp>>

\* What the calls on the Product, the Order and the Employee leave alone.
decoratorVars == <<chain, chainOp>>
reportVars == <<report>>
useCaseVars == <<products, orders, taken, useCaseOp>>
restVars == <<moneyVars, decoratorVars, reportVars, useCaseVars>>

\* ------------------------------------------------------------------ bounds

NumObservers == 3

Observers == 1..NumObservers

\* Arguments of increase_quantity / decrease_quantity: negative, zero, in
\* range, above every stock level.
Amounts == {-1, 0, 250, 1001}

\* Constructor arguments of Product: quantity (below, at and above the
\* low-stock threshold, at the maximum, out of range) and prices.
QuantityArgs == {-5, 0, 10, 11, 1000, 1001}

PriceArgs == {-50, 0, 80, 100, 150, 200}

Range(s) == {s[i] : i \in 1..Len(s)}

\* ----------------------------------------------------------------- Product

MIN_STOCK_LEVEL == 10

MAX_STOCK_LEVEL == 1000
WARNING_STOCK_LEVEL == 50

\* Product.__init__: the fields the rules read; no observer is attached.
Product_init(id, name, purchase_price, selling_price, quantity) ==
    [id |-> id, name |-> name, category |-> "Electronics",
     purchase_price |-> purchase_price, selling_price |-> selling_price,
     quantity |-> quantity, observers |-> <<>>]

\* Product._validate: TRUE when no rule raises (the name rule is not modelled:
\* names are fixed and valid).
Product_validate(p) ==
    /\ ~(p.quantity < 0)
    /\ ~(p.quantity > MAX_STOCK_LEVEL)
    /\ ~(p.selling_price <= 0)
    /\ ~(p.purchase_price <= 0)
    /\ ~(p.selling_price < p.purchase_price)

\* purchase_price.setter
Product_set_purchase_price(p, value) ==
    IF value <= 0
    THEN [product |-> p, error |-> "ValueError"]
    ELSE [product |-> [p EXCEPT !.purchase_price = value], error |-> "none"]

\* selling_price.setter
Product_set_selling_price(p, value) ==
    IF value <= 0
    THEN [product |-> p, error |-> "ValueError"]
    ELSE IF value < p.purchase_price
    THEN [product |-> p, error |-> "ValueError"]
    ELSE [product |-> [p EXCEPT !.selling_price = value], error |-> "none"]

\* attach_observer without the membership test.
Product_attach_observer_always(p, observer) ==
    [p EXCEPT !.observers = Append(p.observers, observer)]

\* Product.attach_observer
Product_attach_observer(p, observer) ==
    IF observer \notin Range(p.observers)
    THEN [p EXCEPT !.observers = Append(p.observers, observer)]
    ELSE p

\* list.remove: the first occurrence of x is taken out of s.
ListRemove(s, x) ==
    LET k == CHOOSE i \in 1..Len(s) :
                 s[i] = x /\ \A j \in 1..(i - 1) : s[j] # x
    IN [i \in 1..(Len(s) - 1) |-> IF i < k THEN s[i] ELSE s[i + 1]]

\* detach_observer that removes nothing.
Product_detach_observer_keep(p, observer) == p

\* Product.detach_observer
Product_detach_observer(p, observer) ==
    IF observer \in Range(p.observers)
    THEN [p EXCEPT !.observers = ListRemove(p.observers, observer)]
    ELSE p

\* is_low_stock with < for <=.
Product_is_low_stock_strict(p) == p.quantity < MIN_STOCK_LEVEL

\* Product.is_low_stock
Product_is_low_stock(p) == p.quantity <= MIN_STOCK_LEVEL

\* One observer.update(product_id, product_name, quantity, threshold) call.
UpdateCall(p, observer) ==
    [observer |-> observer, product_id |-> p.id, product_name |-> p.name,
     quantity |-> p.quantity, threshold |-> MIN_STOCK_LEVEL]

\* The position in obs of the first observer whose update raises, 0 if none.
FirstRaising(obs, raising) ==
    IF \E i \in 1..Len(obs) : obs[i] \in raising
    THEN CHOOSE i \in 1..Len(obs) :
             obs[i] \in raising /\ \A j \in 1..(i - 1) : obs[j] \notin raising
    ELSE 0

\* _notify_observers that swallows what an observer raises and goes on.
Product_notify_observers_isolated(p, raising) ==
    IF Product_is_low_stock(p)
    THEN [calls |-> [i \in 1..Len(p.observers) |-> UpdateCall(p, p.observers[i])],
          failed |-> 0]
    ELSE [calls |-> <<>>, failed |-> 0]

\* Product._notify_observers.  `raising` is the set of attached observers whose
\* update raises when called (LogNotifier.update opens its log file): the loop calls
\* the observers in list order and ends at the first one that raises.  calls
\* are the update calls made, failed the position of the observer that raised.
Product_notify_observers(p, raising) ==
    IF Product_is_low_stock(p)
    THEN LET k == FirstRaising(p.observers, raising)
             n == IF k = 0 THEN Len(p.observers) ELSE k
         IN [calls |-> [i \in 1..n |-> UpdateCall(p, p.observers[i])],
             failed |-> k]
    ELSE [calls |-> <<>>, failed |-> 0]

\* The outcome of a quantity mutation that passed its checks: the quantity is
\* assigned, then the observers are notified.
Committed(q, raising) ==
    LET n == Product_notify_observers(q, raising)
    IN [product |-> q,
        error |-> IF n.failed = 0 THEN "none" ELSE "ObserverError",
        calls |-> n.calls, failed |-> n.failed]

\* The outcome of a quantity mutation whose check raised ValueError.
Rejected(p) ==
    [product |-> p, error |-> "ValueError", calls |-> <<>>, failed |-> 0]

\* increase_quantity without the MAX_STOCK_LEVEL check.
Product_increase_quantity_unbounded(p, amount, raising) ==
    IF amount < 0
    THEN Rejected(p)
    ELSE Committed([p EXCEPT !.quantity = p.quantity + amount], raising)

\* increase_quantity that stops at MAX_STOCK_LEVEL where it should raise.
Product_increase_quantity_clamped(p, amount, raising) ==
    IF amount < 0
    THEN Rejected(p)
    ELSE IF p.quantity + amount > MAX_STOCK_LEVEL
    THEN Committed([p EXCEPT !.quantity = MAX_STOCK_LEVEL], raising)
    ELSE Committed([p EXCEPT !.quantity = p.quantity + amount], raising)

\* Product.increase_quantity
Product_increase_quantity(p, amount, raising) ==
    IF amount < 0
    THEN Rejected(p)
    ELSE IF p.quantity + amount > MAX_STOCK_LEVEL
    THEN Rejected(p)
    ELSE Committed([p EXCEPT !.quantity = p.quantity + amount], raising)

\* decrease_quantity that clamps the quantity to 0 before it raises.
Product_decrease_quantity_eager(p, amount, raising) ==
    IF amount < 0
    THEN Rejected(p)
    ELSE IF p.quantity - amount < 0
    THEN [product |-> [p EXCEPT !.quantity = 0], error |-> "ValueError",
          calls |-> <<>>, failed |-> 0]
    ELSE Committed([p EXCEPT !.quantity = p.quantity - amount], raising)

\* Product.decrease_quantity
Product_decrease_quantity(p, amount, raising) ==
    IF amount < 0
    THEN Rejected(p)
    ELSE IF p.quantity - amount < 0
    THEN Rejected(p)
    ELSE Committed([p EXCEPT !.quantity = p.quantity - amount], raising)

\* ------------------------------------------------------------------- Order

Statuses ==
    {"DRAFT", "PENDING", "CONFIRMED", "PROCESSING", "SHIPPED", "DELIVERED",
     "CANCELLED", "REFUNDED"}

\* A table with two more edges: SHIPPED to CANCELLED, CANCELLED to DRAFT.
valid_transitions_lax(current) ==
    CASE current = "DRAFT" -> {"PENDING", "CANCELLED"}
      [] current = "PENDING" -> {"CONFIRMED", "CANCELLED"}
      [] current = "CONFIRMED" -> {"PROCESSING", "CANCELLED"}
      [] current = "PROCESSING" -> {"SHIPPED", "CANCELLED"}
      [] current = "SHIPPED" -> {"DELIVERED", "CANCELLED"}
      [] current = "DELIVERED" -> {"REFUNDED"}
      [] current = "CANCELLED" -> {"DRAFT"}
      [] current = "REFUNDED" -> {}

\* The valid_transitions table of OrderStatus.can_transition.
valid_transitions(current) ==
    CASE current = "DRAFT" -> {"PENDING", "CANCELLED"}
      [] current = "PENDING" -> {"CONFIRMED", "CANCELLED"}
      [] current = "CONFIRMED" -> {"PROCESSING", "CANCELLED"}
      [] current = "PROCESSING" -> {"SHIPPED", "CANCELLED"}
      [] current = "SHIPPED" -> {"DELIVERED"}
      [] current = "DELIVERED" -> {"REFUNDED"}
      [] current = "CANCELLED" -> {}
      [] current = "REFUNDED" -> {}

\* OrderStatus.can_transition
can_transition(current, new) == new \in valid_transitions(current)

\* Product.can_fulfill_order
Product_can_fulfill_order(p, quantity) == p.quantity >= quantity

\* Money.__mul__ on the amount (the currency is USD throughout).
Money_mul(amount, quantity) == amount * quantity

\* OrderItem.calculate_total
OrderItem_calculate_total(item) == Money_mul(item.unit_price, item.quantity)

\* OrderItem(...) with __post_init__: the item, or the error it raises.
OrderItem_init(product_id, product_name, unit_price, quantity) ==
    IF quantity <= 0
    THEN [error |-> "ValueError"]
    ELSE IF unit_price <= 0
    THEN [error |-> "ValueError"]
    ELSE [error |-> "none",
          item |-> [product_id |-> product_id, product_name |-> product_name,
                    unit_price |-> unit_price, quantity |-> quantity,
                    total_price |-> Money_mul(unit_price, quantity)]]

\* OrderItem.increase_quantity
OrderItem_increase_quantity(item, amount) ==
    IF amount <= 0
    THEN [error |-> "ValueError", item |-> item]
    ELSE LET q == [item EXCEPT !.quantity = item.quantity + amount]
         IN [error |-> "none",
             item |-> [q EXCEPT !.total_price = OrderItem_calculate_total(q)]]

\* OrderItem.decrease_quantity
OrderItem_decrease_quantity(item, amount) ==
    IF amount <= 0
    THEN [error |-> "ValueError", item |-> item]
    ELSE IF item.quantity - amount < 0
    THEN [error |-> "ValueError", item |-> item]
    ELSE LET q == [item EXCEPT !.quantity = item.quantity - amount]
         IN [error |-> "none",
             item |-> [q EXCEPT !.total_price = OrderItem_calculate_total(q)]]

\* update_price that leaves the total of the old price.
OrderItem_update_price_stale(item, new_price) ==
    IF new_price <= 0
    THEN [error |-> "ValueError", item |-> item]
    ELSE [error |-> "none", item |-> [item EXCEPT !.unit_price = new_price]]

\* OrderItem.update_price
OrderItem_update_price(item, new_price) ==
    IF new_price <= 0
    THEN [error |-> "ValueError", item |-> item]
    ELSE LET q == [item EXCEPT !.unit_price = new_price]
         IN [error |-> "none",
             item |-> [q EXCEPT !.total_price = OrderItem_calculate_total(q)]]

\* Order.__init__: status DRAFT, no items.
Order_init == [status |-> "DRAFT", items |-> <<>>]

\* self._items[product_id] = item
ItemsPut(items, product_id, item) ==
    [x \in DOMAIN items \cup {product_id} |->
        IF x = product_id THEN item ELSE items[x]]

\* del self._items[product_id]
ItemsDel(items, product_id) ==
    [x \in DOMAIN items \ {product_id} |-> items[x]]

\* can_be_cancelled that still holds once the order is shipped.
Order_can_be_cancelled_shipped(o) ==
    o.status \in {"DRAFT", "PENDING", "CONFIRMED", "PROCESSING", "SHIPPED"}

\* Order.can_be_cancelled
Order_can_be_cancelled(o) ==
    o.status \in {"DRAFT", "PENDING", "CONFIRMED", "PROCESSING"}

\* Order.is_completed
Order_is_completed(o) == o.status \in {"DELIVERED", "REFUNDED"}

\* Order.can_be_modified
Order_can_be_modified(o) == o.status \in {"DRAFT", "PENDING"}

\* The outcome of an add_item that raised: nothing is changed.
AddItemRaised(o, p, error) ==
    [order |-> o, error |-> error, ret |-> "None", product |-> p, calls |-> <<>>]

\* The outcome of an add_item that stored item: the order holds it; the product
\* is read, never written, and no observer is called.
AddItemStored(o, p, item) ==
    [order |-> [o EXCEPT !.items = ItemsPut(o.items, p.id, item)],
     error |-> "none", ret |-> "None", product |-> p, calls |-> <<>>]

\* add_item that stores the asked quantity over the one the order holds.
Order_add_item_overwrite(o, p, quantity) ==
    IF ~Product_can_fulfill_order(p, quantity)
    THEN AddItemRaised(o, p, "ValueError")
    ELSE LET r == OrderItem_init(p.id, p.name, p.selling_price, quantity)
         IN IF r.error # "none"
            THEN AddItemRaised(o, p, r.error)
            ELSE AddItemStored(o, p, r.item)

\* add_item that takes the quantity out of the product's stock.
Order_add_item_taking_stock(o, p, quantity) ==
    LET d == Product_decrease_quantity(p, quantity, {})
    IN IF d.error # "none"
       THEN AddItemRaised(o, p, d.error)
       ELSE LET r == OrderItem_init(p.id, p.name, p.selling_price, quantity)
            IN IF r.error # "none"
               THEN AddItemRaised(o, p, r.error)
               ELSE [AddItemStored(o, p, r.item) EXCEPT
                         !.product = d.product, !.calls = d.calls]

\* Order.add_item
Order_add_item(o, p, quantity) ==
    IF ~Product_can_fulfill_order(p, quantity)
    THEN AddItemRaised(o, p, "ValueError")
    ELSE IF p.id \in DOMAIN o.items
    THEN LET r == OrderItem_increase_quantity(o.items[p.id], quantity)
         IN IF r.error # "none"
            THEN AddItemRaised(o, p, r.error)
            ELSE AddItemStored(o, p, r.item)
    ELSE LET r == OrderItem_init(p.id, p.name, p.selling_price, quantity)
         IN IF r.error # "none"
            THEN AddItemRaised(o, p, r.error)
            ELSE AddItemStored(o, p, r.item)

\* Order.remove_item
Order_remove_item(o, product_id) ==
    IF product_id \in DOMAIN o.items
    THEN [order |-> [o EXCEPT !.items = ItemsDel(o.items, product_id)],
          error |-> "none", ret |-> "True"]
    ELSE [order |-> o, error |-> "none", ret |-> "False"]

\* update_item_quantity that stores a quantity of zero or less.
Order_update_item_quantity_storing(o, product_id, new_quantity) ==
    IF product_id \in DOMAIN o.items
    THEN LET q == [o.items[product_id] EXCEPT !.quantity = new_quantity]
             item == [q EXCEPT !.total_price = OrderItem_calculate_total(q)]
         IN [order |-> [o EXCEPT !.items = ItemsPut(o.items, product_id, item)],
             error |-> "none", ret |-> "True"]
    ELSE [order |-> o, error |-> "none", ret |-> "False"]

\* Order.update_item_quantity
Order_update_item_quantity(o, product_id, new_quantity) ==
    IF product_id \in DOMAIN o.items
    THEN IF new_quantity <= 0
         THEN Order_remove_item(o, product_id)
         ELSE LET q == [o.items[product_id] EXCEPT !.quantity = new_quantity]
                  item == [q EXCEPT !.total_price = OrderItem_calculate_total(q)]
              IN [order |-> [o EXCEPT !.items = ItemsPut(o.items, product_id, item)],
                  error |-> "none", ret |-> "True"]
    ELSE [order |-> o, error |-> "none", ret |-> "False"]

\* Decimal amounts are counted in hundredths: Dec(n) is Decimal('n'), and the
\* product and quotient of two Decimals are exact on the amounts used here.
Hundredths == 100
Dec(n) == n * Hundredths
Dec_mul(a, b) == (a * b) \div Hundredths
Dec_truediv(a, b) == (a * Hundredths) \div b

\* sum(f[x] for x in D)
RECURSIVE Sum(_, _)
Sum(f, D) ==
    IF D = {} THEN 0
    ELSE LET x == CHOOSE y \in D : TRUE IN f[x] + Sum(f, D \ {x})

\* Order.get_item_count
Order_get_item_count(o) ==
    Sum([id \in DOMAIN o.items |-> o.items[id].quantity], DOMAIN o.items)

\* Order.calculate_subtotal, a Decimal amount
Order_calculate_subtotal(o) ==
    Sum([id \in DOMAIN o.items |-> Dec(OrderItem_calculate_total(o.items[id]))],
        DOMAIN o.items)

\* Order.calculate_tax
Order_calculate_tax(o, tax_rate) ==
    IF ~(0 <= tax_rate /\ tax_rate <= Dec(1))
    THEN [error |-> "ValueError", amount |-> 0]
    ELSE [error |-> "none", amount |-> Dec_mul(Order_calculate_subtotal(o), tax_rate)]

\* Order.calculate_shipping_cost
Order_calculate_shipping_cost(o, base_cost) ==
    LET item_count == Order_get_item_count(o)
    IN IF item_count = 0
       THEN Dec(0)
       ELSE base_cost + Dec_mul(Dec(1), Dec(item_count))

\* Order.calculate_discount
Order_calculate_discount(o, discount_percentage) ==
    IF ~(0 <= discount_percentage /\ discount_percentage <= Dec(100))
    THEN [error |-> "ValueError", amount |-> 0]
    ELSE [error |-> "none",
          amount |-> Dec_mul(Order_calculate_subtotal(o),
                             Dec_truediv(discount_percentage, Dec(100)))]

\* A shipping_cost argument: None, or a Money of the amount.
NoShippingCost == [given |-> FALSE, amount |-> 0]
ShippingCost(amount) == [given |-> TRUE, amount |-> amount]

\* `shipping_cost or ...` in which a Money of amount zero counts as false.
Money_truthy_nonzero(shipping_cost) ==
    shipping_cost.given /\ shipping_cost.amount # 0

\* The truth value of `shipping_cost`: None is false, and a Money, a dataclass
\* with neither __bool__ nor __len__, is true whatever its amount.
Money_truthy(shipping_cost) == shipping_cost.given

\* Order.calculate_total
Order_calculate_total(o, tax_rate, shipping_cost, discount_percentage) ==
    LET subtotal == Order_calculate_subtotal(o)
        tax == Order_calculate_tax(o, tax_rate)
        shipping == IF Money_truthy(shipping_cost)
                    THEN shipping_cost.amount
                    ELSE Order_calculate_shipping_cost(o, Dec(10))
        discount == Order_calculate_discount(o, discount_percentage)
        total_amount == subtotal + tax.amount + shipping - discount.amount
    IN IF tax.error # "none"
       THEN [error |-> tax.error, amount |-> 0]
       ELSE IF discount.error # "none"
       THEN [error |-> discount.error, amount |-> 0]
       ELSE [error |-> "none",
             amount |-> IF total_amount < 0 THEN Dec(0) ELSE total_amount]

\* change_status without the can_transition check.
Order_change_status_unchecked(o, new_status) ==
    [order |-> [o EXCEPT !.status = new_status], error |-> "none"]

\* Order.change_status
Order_change_status(o, new_status) ==
    IF ~can_transition(o.status, new_status)
    THEN [order |-> o, error |-> "ValueError"]
    ELSE [order |-> [o EXCEPT !.status = new_status], error |-> "none"]

\* ---------------------------------------------------------------- Employee

Roles ==
    {"MANAGER", "SUPERVISOR", "WAREHOUSE_WORKER", "ACCOUNTANT", "SALES_REP",
     "SUPPORT", "ADMIN"}

\* Employee.__init__: the role, and no task assigned.
Employee_init(role) == [role |-> role, assigned_tasks |-> <<>>]

\* role.setter
Employee_set_role(e, value) == [e EXCEPT !.role = value]

\* assign_task that appends without looking at the list.
Employee_assign_task_always(e, task) ==
    [e EXCEPT !.assigned_tasks = Append(e.assigned_tasks, task)]

\* Employee.assign_task
Employee_assign_task(e, task) ==
    IF task \notin Range(e.assigned_tasks)
    THEN [e EXCEPT !.assigned_tasks = Append(e.assigned_tasks, task)]
    ELSE e

\* Employee.remove_task: the employee and the bool returned.
Employee_remove_task(e, task) ==
    IF task \in Range(e.assigned_tasks)
    THEN [employee |-> [e EXCEPT !.assigned_tasks = ListRemove(e.assigned_tasks, task)],
          ret |-> "True"]
    ELSE [employee |-> e, ret |-> "False"]

\* can_manage in which a supervisor manages every role but its own.
Employee_can_manage_flat(e, other) ==
    IF e.role = "MANAGER" \/ e.role = "ADMIN"
    THEN other.role # "ACCOUNTANT"
    ELSE IF e.role = "SUPERVISOR" /\ other.role # "SUPERVISOR"
    THEN TRUE
    ELSE FALSE

\* Employee.can_manage
Employee_can_manage(e, other) ==
    IF e.role = "MANAGER" \/ e.role = "ADMIN"
    THEN other.role # "ACCOUNTANT"
    ELSE IF e.role = "SUPERVISOR"
            /\ other.role \notin {"MANAGER", "ADMIN", "ACCOUNTANT"}
    THEN TRUE
    ELSE FALSE

\* ------------------------------------------------------------------- Money

\* A Decimal is its sign, its digits (most significant first) and its
\* exponent, as Decimal.as_tuple() gives them.  Arithmetic is exact on the
\* digits and then rounded half-even to the precision of the default context.
DecimalPrec == 28

Zeros(n) == [i \in 1..n |-> 0]

\* d without its leading zeros, one digit at least.
StripZeros(d) ==
    IF \A i \in 1..Len(d) : d[i] = 0
    THEN <<0>>
    ELSE LET first == CHOOSE i \in 1..Len(d) :
                          d[i] # 0 /\ \A j \in 1..(i - 1) : d[j] = 0
         IN SubSeq(d, first, Len(d))

PadLeft(d, n) == Zeros(n - Len(d)) \o d

\* The digits of a + b, a and b of one length n; n + 1 digits.  The carry into
\* place i comes from a place to its right that overflows, through places that
\* sum to 9.
DigitsAdd(a, b) ==
    LET n == Len(a)
        carry(i) == IF \E j \in (i + 1)..n :
                           /\ a[j] + b[j] >= 10
                           /\ \A k \in (i + 1)..(j - 1) : a[k] + b[k] = 9
                    THEN 1 ELSE 0
    IN <<carry(0)>> \o [i \in 1..n |-> (a[i] + b[i] + carry(i)) % 10]

\* The digits of a - b, a and b of one length, a >= b.  The borrow from place
\* i comes from a place to its right where a is short, through equal places.
DigitsSub(a, b) ==
    LET n == Len(a)
        borrow(i) == IF \E j \in (i + 1)..n :
                            /\ a[j] < b[j]
                            /\ \A k \in (i + 1)..(j - 1) : a[k] = b[k]
                     THEN 1 ELSE 0
    IN [i \in 1..n |-> (a[i] - b[i] - borrow(i) + 10) % 10]

\* The digits of a * n, for an int n >= 0: a added n times.
RECURSIVE DigitsMul(_, _)
DigitsMul(a, n) ==
    IF n = 0 THEN <<0>>
    ELSE LET m == DigitsMul(a, n - 1)
             len == IF Len(a) > Len(m) THEN Len(a) ELSE Len(m)
         IN DigitsAdd(PadLeft(a, len), PadLeft(m, len))

\* Long division by n: what the digits lo..hi of a make of each remainder
\* carried into them.
RECURSIVE Remainders(_, _, _, _)
Remainders(a, n, lo, hi) ==
    IF lo > hi THEN [r \in 0..(n - 1) |-> r]
    ELSE IF lo = hi THEN [r \in 0..(n - 1) |-> (r * 10 + a[lo]) % n]
    ELSE LET mid == (lo + hi) \div 2
             left == Remainders(a, n, lo, mid)
             right == Remainders(a, n, mid + 1, hi)
         IN [r \in 0..(n - 1) |-> right[left[r]]]

\* Quotient digits and remainder of a by n, n >= 1.
DigitsDiv(a, n) ==
    [q |-> [i \in 1..Len(a) |->
               (Remainders(a, n, 1, i - 1)[0] * 10 + a[i]) \div n],
     r |-> Remainders(a, n, 1, Len(a))[0]]

\* a < b, a and b of one length
DigitsLess(a, b) ==
    \E i \in 1..Len(a) : a[i] < b[i] /\ \A j \in 1..(i - 1) : a[j] = b[j]

\* The context's rounding of an exact result: ROUND_HALF_EVEN to DecimalPrec
\* digits.
Decimal_round(sign, digits, exp) ==
    LET d == StripZeros(digits)
    IN IF Len(d) <= DecimalPrec
       THEN [sign |-> sign, digits |-> d, exp |-> exp]
       ELSE LET drop == Len(d) - DecimalPrec
                kept == SubSeq(d, 1, DecimalPrec)
                rest == SubSeq(d, DecimalPrec + 1, Len(d))
                tie == rest[1] = 5 /\ \A i \in 2..Len(rest) : rest[i] = 0
                up == \/ rest[1] > 5
                      \/ rest[1] = 5 /\ ~tie
                      \/ tie /\ kept[DecimalPrec] % 2 = 1
                inc == IF up
                       THEN StripZeros(DigitsAdd(kept, PadLeft(<<1>>, DecimalPrec)))
                       ELSE kept
            IN IF Len(inc) > DecimalPrec
               THEN [sign |-> sign, digits |-> SubSeq(inc, 1, DecimalPrec),
                     exp |-> exp + drop + 1]
               ELSE [sign |-> sign, digits |-> inc, exp |-> exp + drop]

\* The digits of x and y at one exponent and of one length.
Aligned(x, y) ==
    LET exp == IF x.exp < y.exp THEN x.exp ELSE y.exp
        a == x.digits \o Zeros(x.exp - exp)
        b == y.digits \o Zeros(y.exp - exp)
        n == IF Len(a) > Len(b) THEN Len(a) ELSE Len(b)
    IN [exp |-> exp, n |-> n, a |-> PadLeft(a, n), b |-> PadLeft(b, n)]

\* Decimal.__add__
Decimal_add(x, y) ==
    LET al == Aligned(x, y)
    IN IF x.sign = y.sign
       THEN Decimal_round(x.sign, DigitsAdd(al.a, al.b), al.exp)
       ELSE IF al.a = al.b
       THEN Decimal_round(0, <<0>>, al.exp)
       ELSE IF DigitsLess(al.a, al.b)
       THEN Decimal_round(y.sign, DigitsSub(al.b, al.a), al.exp)
       ELSE Decimal_round(x.sign, DigitsSub(al.a, al.b), al.exp)

\* Decimal.__neg__ and Decimal.__sub__
Decimal_neg(x) == [x EXCEPT !.sign = 1 - x.sign]
Decimal_sub(x, y) == Decimal_add(x, Decimal_neg(y))

\* Decimal.__mul__ by an int n >= 0
Decimal_mul(x, n) ==
    Decimal_round(x.sign, DigitsMul(x.digits, n), x.exp)

\* Decimal.__truediv__ by an int n >= 1: the quotient to one digit past
\* the precision, a last digit standing for a remainder, then rounded.
Decimal_truediv(x, n) ==
    LET a == x.digits \o Zeros(DecimalPrec + 1)
        p == DigitsDiv(a, n)
    IN Decimal_round(x.sign, p.q \o <<IF p.r = 0 THEN 0 ELSE 1>>,
                     x.exp - (DecimalPrec + 1) - 1)

\* Decimal.__eq__: equal as numbers, whatever their exponents.
Decimal_eq(x, y) ==
    LET al == Aligned(x, y)
    IN /\ al.a = al.b
       /\ x.sign = y.sign \/ al.a = Zeros(al.n)

\* Decimal('<digits>E<exp>')
Decimal(digits, exp) == [sign |-> 0, digits |-> digits, exp |-> exp]

\* Money(amount, currency)
Money(amount, currency) == [amount |-> amount, currency |-> currency]

\* The dataclass __eq__ of Money: amounts and currencies equal.
Money_eq(m1, m2) == Decimal_eq(m1.amount, m2.amount) /\ m1.currency = m2.currency

\* What a Money operation raised, or returned: the operands are handed back as
\* the call left them.
MoneyRaised(self, other) ==
    [error |-> "ValueError", result |-> self, self |-> self, other |-> other]
MoneyReturned(result, self, other) ==
    [error |-> "none", result |-> result, self |-> self, other |-> other]

\* __add__ that never looks at the currencies.
Money_add_any_currency(self, other) ==
    MoneyReturned(Money(Decimal_add(self.amount, other.amount), self.currency),
                  self, other)

\* Money.__add__
Money_add(self, other) ==
    IF self.currency # other.currency
    THEN MoneyRaised(self, other)
    ELSE MoneyReturned(Money(Decimal_add(self.amount, other.amount), self.currency),
                       self, other)

\* __sub__ with its operands the wrong way round.
Money_sub_swapped(self, other) ==
    IF self.currency # other.currency
    THEN MoneyRaised(self, other)
    ELSE MoneyReturned(Money(Decimal_sub(other.amount, self.amount), self.currency),
                       self, other)

\* Money.__sub__
Money_sub(self, other) ==
    IF self.currency # other.currency
    THEN MoneyRaised(self, other)
    ELSE MoneyReturned(Money(Decimal_sub(self.amount, other.amount), self.currency),
                       self, other)

\* Money.__mul__
Money_mul_int(self, quantity) ==
    MoneyReturned(Money(Decimal_mul(self.amount, quantity), self.currency),
                  self, self)

\* Money.__truediv__
Money_truediv(self, divisor) ==
    IF divisor = 0
    THEN MoneyRaised(self, self)
    ELSE MoneyReturned(Money(Decimal_truediv(self.amount, divisor), self.currency),
                       self, self)

NoMoney == Money(Decimal(<<0>>, 0), "")
NoMoneyOp ==
    [op |-> "none", self |-> NoMoney, other |-> NoMoney, n |-> 0,
     error |-> "none", result |-> NoMoney, after |-> <<NoMoney, NoMoney>>,
     prior |-> <<>>]

\* -------------------------------------------------------------- decorators

\* dict.update: the keys of e are written over d.
DictUpdate(d, e) ==
    [k \in DOMAIN d \cup DOMAIN e |-> IF k \in DOMAIN e THEN e[k] ELSE d[k]]

\* Product.is_warning_stock and Product.get_stock_status
Product_is_warning_stock(p) ==
    MIN_STOCK_LEVEL < p.quantity /\ p.quantity <= WARNING_STOCK_LEVEL
Product_get_stock_status(p) ==
    IF Product_is_low_stock(p) THEN "LOW STOCK"
    ELSE IF Product_is_warning_stock(p) THEN "WARNING"
    ELSE "IN STOCK"

\* str(Money): the currency and the amount to two decimals, here in hundredths.
Money_str(amount) == <<"USD", amount>>

\* Product.get_details, a new dict at every call.  sku, description, weight,
\* dimensions, profit_margin and the timestamps are fields the product record
\* does not hold; no decorator writes them.
Product_get_details(p) ==
    [id |-> p.id, name |-> p.name, category |-> p.category,
     purchase_price |-> Money_str(Dec(p.purchase_price)),
     selling_price |-> Money_str(Dec(p.selling_price)),
     quantity |-> p.quantity,
     stock_status |-> Product_get_stock_status(p),
     total_value |-> Money_str(Dec(Money_mul(p.purchase_price, p.quantity)))]

\* The three decorators, as one record shape: the class and its attributes
\* (those of the other classes are unset).
DiscountedProduct(discount_percentage) ==
    [type |-> "DiscountedProduct", discount_percentage |-> discount_percentage,
     feature_description |-> "", banner_color |-> "",
     edition_number |-> 0, total_edition |-> 0]
FeaturedProduct(feature_description, banner_color) ==
    [type |-> "FeaturedProduct", discount_percentage |-> 0,
     feature_description |-> feature_description, banner_color |-> banner_color,
     edition_number |-> 0, total_edition |-> 0]
LimitedEditionProduct(edition_number, total_edition) ==
    [type |-> "LimitedEditionProduct", discount_percentage |-> 0,
     feature_description |-> "", banner_color |-> "",
     edition_number |-> edition_number, total_edition |-> total_edition]

\* The instance attributes a decorator of each class has besides _product.
OwnAttributes(layer) ==
    CASE layer.type = "DiscountedProduct" -> {"discount_percentage"}
      [] layer.type = "FeaturedProduct" -> {"feature_description", "banner_color"}
      [] layer.type = "LimitedEditionProduct" -> {"edition_number", "total_edition"}

\* getattr(decorator, name) on layer n of the chain around p (layer 0 is p):
\* the layer's own attribute, or else __getattr__, which asks the wrapped one.
RECURSIVE Decorator_getattr(_, _, _, _)
Decorator_getattr(layers, n, p, name) ==
    IF n = 0
    THEN IF name \in DOMAIN p
         THEN [error |-> "none", value |-> p[name]]
         ELSE [error |-> "AttributeError", value |-> 0]
    ELSE IF name \in OwnAttributes(layers[n])
    THEN [error |-> "none", value |-> layers[n][name]]
    ELSE Decorator_getattr(layers, n - 1, p, name)

\* original_price * (Decimal('1') - self.discount_percentage / Decimal('100'))
DiscountedPrice(original_price, discount_percentage) ==
    Dec_mul(original_price, Dec(1) - Dec_truediv(Dec(discount_percentage), Dec(100)))

\* What layer n writes into the details it got from the layer it wraps; a
\* FeaturedProduct stamps the time, now, of its turn.
OwnDetails(layers, n, p, now) ==
    LET layer == layers[n]
        original_price == Dec(Decorator_getattr(layers, n - 1, p, "selling_price").value)
        discounted_price == DiscountedPrice(original_price, layer.discount_percentage)
        marks == [decorated |-> TRUE, decorator_type |-> layer.type]
    IN CASE layer.type = "DiscountedProduct" ->
                DictUpdate(marks,
                    [original_price |-> Money_str(original_price),
                     discounted_price |-> Money_str(discounted_price),
                     discount_percentage |-> <<layer.discount_percentage, "%">>,
                     savings |-> Money_str(original_price - discounted_price)])
         [] layer.type = "FeaturedProduct" ->
                DictUpdate(marks,
                    [featured |-> TRUE,
                     feature_description |-> layer.feature_description,
                     banner_color |-> layer.banner_color,
                     featured_since |-> now])
         [] layer.type = "LimitedEditionProduct" ->
                DictUpdate(marks,
                    [limited_edition |-> TRUE,
                     edition_number |-> layer.edition_number,
                     total_edition |-> layer.total_edition,
                     rarity |-> <<layer.edition_number, "/", layer.total_edition>>])

\* get_details() of layer n: the details of the wrapped one, with the layer's
\* own written over them.  The clock advances by tick between two layers.
RECURSIVE Decorator_get_details(_, _, _, _)
Decorator_get_details(layers, n, p, tick) ==
    IF n = 0 THEN Product_get_details(p)
    ELSE DictUpdate(Decorator_get_details(layers, n - 1, p, tick),
                    OwnDetails(layers, n, p, n * tick))

\* get_selling_price that writes the discounted price into the product.
RECURSIVE Decorator_get_selling_price_applying(_, _, _)
Decorator_get_selling_price_applying(layers, n, p) ==
    IF n = 0
    THEN [error |-> "AttributeError", value |-> 0, product |-> p]
    ELSE IF layers[n].type = "DiscountedProduct"
    THEN LET price == DiscountedPrice(Dec(p.selling_price),
                                      layers[n].discount_percentage)
         IN [error |-> "none", value |-> price,
             product |-> [p EXCEPT !.selling_price = price \div Hundredths]]
    ELSE Decorator_get_selling_price_applying(layers, n - 1, p)

\* get_selling_price() on layer n: DiscountedProduct's own, or else the wrapped
\* one's through __getattr__; a Product has none.  The product is handed back
\* as the call leaves it.
RECURSIVE Decorator_get_selling_price(_, _, _)
Decorator_get_selling_price(layers, n, p) ==
    IF n = 0
    THEN [error |-> "AttributeError", value |-> 0, product |-> p]
    ELSE IF layers[n].type = "DiscountedProduct"
    THEN [error |-> "none",
          value |-> DiscountedPrice(
                        Dec(Decorator_getattr(layers, n - 1, p, "selling_price").value),
                        layers[n].discount_percentage),
          product |-> p]
    ELSE Decorator_get_selling_price(layers, n - 1, p)

\* decorated_product of layer n: the layer below it, 0 being the Product.
Decorator_decorated_product(layers, n) == n - 1

NoChainOp ==
    [op |-> "none", arg |-> "", depth |-> 0, error |-> "none", result |-> <<>>,
     pre |-> <<>>, post |-> <<>>]

\* --------------------------------------------------------- ReportGenerator

\* A generate_report() run: pc is the step it is about to make ("idle" before
\* a run, "done" once it has returned, "failed" once a step has raised); data,
\* processed_data and report are its locals; log lists the steps made, each
\* with what it received and what it returned or raised.
NoReport ==
    [pc |-> "idle", data |-> "", processed_data |-> "", report |-> <<>>,
     returned |-> <<>>, log |-> <<>>]

\* generate_report() is called.
Report_generate_report(r) == [NoReport EXCEPT !.pc = "validate"]

Step(name, received, returned, error) ==
    [step |-> name, received |-> received, returned |-> returned, error |-> error]

\* A step that raised: the exception leaves generate_report.
Report_raised(r, name, received) ==
    [r EXCEPT !.pc = "failed",
              !.log = Append(r.log, Step(name, received, <<>>, "Exception"))]

\* self._validate_data()
Report_validate_data(r) ==
    [r EXCEPT !.pc = "collect",
              !.log = Append(r.log, Step("validate", <<>>, <<>>, "none"))]

\* data = self._collect_data(), which returned collected
Report_collect_data(r, collected) ==
    [r EXCEPT !.pc = "process", !.data = collected,
              !.log = Append(r.log, Step("collect", <<>>, <<collected>>, "none"))]

\* processed_data = self._process_data(data), which returned processed
Report_process_data(r, processed) ==
    [r EXCEPT !.pc = "format", !.processed_data = processed,
              !.log = Append(r.log, Step("process", <<r.data>>, <<processed>>, "none"))]

\* ReportGenerator._format_report(data), made at the clock reading now
Report_format(type, data, now) ==
    <<[report_type |-> type, generated_at |-> now, data |-> data]>>

\* The format step handed the collected data where the processed data belong.
Report_format_report_raw(r, type, now) ==
    [r EXCEPT !.pc = "save", !.report = Report_format(type, r.data, now),
              !.log = Append(r.log, Step("format", <<r.data>>,
                                         Report_format(type, r.data, now), "none"))]

\* report = self._format_report(processed_data)
Report_format_report(r, type, now) ==
    [r EXCEPT !.pc = "save", !.report = Report_format(type, r.processed_data, now),
              !.log = Append(r.log, Step("format", <<r.processed_data>>,
                                         Report_format(type, r.processed_data, now),
                                         "none"))]

\* self._save_report(report); return report
Report_save_report(r) ==
    [r EXCEPT !.pc = "done", !.returned = r.report,
              !.log = Append(r.log, Step("save", r.report, <<>>, "none"))]

\* ---------------------------------------------------------------- use cases

\* The repositories map ids to entities. An order is stored with the keys of
\* its _items dict in insertion order, the order in which get_items() lists
\* the items.

\* Repository.save
Repository_save(repo, id, entity) ==
    [x \in DOMAIN repo \cup {id} |-> IF x = id THEN entity ELSE repo[x]]

\* Repository.delete
Repository_delete(repo, id) == [x \in DOMAIN repo \ {id} |-> repo[x]]

\* Order.get_items
Order_get_items(stored) ==
    [i \in 1..Len(stored.keys) |-> stored.order.items[stored.keys[i]]]

\* What a use-case call leaves: the repositories, the error raised ("none"
\* when it returned) and the statement it ended at.
Outcome(prods, ords, error, stage) ==
    [products |-> prods, orders |-> ords, error |-> error, stage |-> stage]

\* OrderManagementUseCase.add_product_to_order
add_product_to_order(prods, ords, order_id, product_id, quantity) ==
    IF order_id \notin DOMAIN ords
    THEN Outcome(prods, ords, "ValueError", "order")
    ELSE IF product_id \notin DOMAIN prods
    THEN Outcome(prods, ords, "ValueError", "product")
    ELSE LET stored == ords[order_id]
             r == Order_add_item(stored.order, prods[product_id], quantity)
             keys == IF product_id \in DOMAIN stored.order.items
                     THEN stored.keys
                     ELSE Append(stored.keys, product_id)
         IN IF r.error # "none"
            THEN Outcome(prods, ords, r.error, "add_item")
            ELSE Outcome(prods,
                         Repository_save(ords, order_id,
                                         [order |-> r.order, keys |-> keys]),
                         "none", "return")

\* ProductManagementUseCase.restock_product
restock_product(prods, ords, product_id, quantity) ==
    IF product_id \notin DOMAIN prods
    THEN Outcome(prods, ords, "ValueError", "product")
    ELSE LET r == Product_increase_quantity(prods[product_id], quantity, {})
         IN IF r.error # "none"
            THEN Outcome(prods, ords, r.error, "increase_quantity")
            ELSE Outcome(Repository_save(prods, product_id, r.product), ords,
                         "none", "return")

\* The first loop of process_order: TRUE when every item's product is there
\* and can fulfil the item's quantity.
AllAvailable(prods, items) ==
    \A i \in 1..Len(items) :
        /\ items[i].product_id \in DOMAIN prods
        /\ Product_can_fulfill_order(prods[items[i].product_id], items[i].quantity)

\* The second loop of process_order from item i on: decrease_quantity and save,
\* product by product, up to the first call that raises.
RECURSIVE DecreaseEach(_, _, _)
DecreaseEach(prods, items, i) ==
    IF i > Len(items)
    THEN [products |-> prods, error |-> "none"]
    ELSE IF items[i].product_id \notin DOMAIN prods
    THEN [products |-> prods, error |-> "AttributeError"]
    ELSE LET r == Product_decrease_quantity(prods[items[i].product_id],
                                            items[i].quantity, {})
         IN IF r.error # "none"
            THEN [products |-> prods, error |-> r.error]
            ELSE DecreaseEach(Repository_save(prods, items[i].product_id, r.product),
                              items, i + 1)

\* OrderManagementUseCase.process_order
process_order(prods, ords, order_id) ==
    IF order_id \notin DOMAIN ords
    THEN Outcome(prods, ords, "ValueError", "order")
    ELSE LET stored == ords[order_id]
             items == Order_get_items(stored)
         IN IF ~AllAvailable(prods, items)
            THEN Outcome(prods, ords, "ValueError", "available")
            ELSE LET d == DecreaseEach(prods, items, 1)
                     c == Order_change_status(stored.order, "PROCESSING")
                 IN IF d.error # "none"
                    THEN Outcome(d.products, ords, d.error, "decrease_quantity")
                    ELSE IF c.error # "none"
                    THEN Outcome(d.products, ords, c.error, "change_status")
                    ELSE Outcome(d.products,
                                 Repository_save(ords, order_id,
                                                 [stored EXCEPT !.order = c.order]),
                                 "none", "return")

\* The loop of cancel_order from item i on: increase_quantity and save for each
\* product that is there, up to the first call that raises.
RECURSIVE IncreaseEach(_, _, _)
IncreaseEach(prods, items, i) ==
    IF i > Len(items)
    THEN [products |-> prods, error |-> "none"]
    ELSE IF items[i].product_id \notin DOMAIN prods
    THEN IncreaseEach(prods, items, i + 1)
    ELSE LET r == Product_increase_quantity(prods[items[i].product_id],
                                            items[i].quantity, {})
         IN IF r.error # "none"
            THEN [products |-> prods, error |-> r.error]
            ELSE IncreaseEach(Repository_save(prods, items[i].product_id, r.product),
                              items, i + 1)

\* OrderManagementUseCase.cancel_order
cancel_order(prods, ords, order_id) ==
    IF order_id \notin DOMAIN ords
    THEN Outcome(prods, ords, "ValueError", "order")
    ELSE LET stored == ords[order_id]
         IN IF ~Order_can_be_cancelled(stored.order)
            THEN Outcome(prods, ords, "ValueError", "can_be_cancelled")
            ELSE LET d == IF stored.order.status = "PROCESSING"
                          THEN IncreaseEach(prods, Order_get_items(stored), 1)
                          ELSE [products |-> prods, error |-> "none"]
                     c == Order_change_status(stored.order, "CANCELLED")
                 IN IF d.error # "none"
                    THEN Outcome(d.products, ords, d.error, "increase_quantity")
                    ELSE IF c.error # "none"
                    THEN Outcome(d.products, ords, c.error, "change_status")
                    ELSE Outcome(d.products,
                                 Repository_save(ords, order_id,
                                                 [stored EXCEPT !.order = c.order]),
                                 "none", "return")

\* The stock each product of the repository starts with.
InitialStocks == {6}

NoUseCaseOp ==
    [op |-> "init", order_id |-> "", product_id |-> "", quantity |-> 0,
     new_status |-> "", error |-> "none", stage |-> "return",
     pre |-> [products |-> <<>>, orders |-> <<>>, taken |-> <<>>]]

\* No operation made yet on what the calls on Product, Order and Employee
\* leave alone.
InitRest ==
    /\ moneyOp = NoMoneyOp
    /\ chain = <<>>
    /\ chainOp = NoChainOp
    /\ report = NoReport
    /\ products \in {[id \in {"P1", "P2"} |-> Product_init(id, "name", 100, 150, q)] :
                        q \in InitialStocks}
    /\ orders = [id \in {"O1"} |-> [order |-> Order_init, keys |-> <<>>]]
    /\ taken = [products |-> <<>>, since |-> "never", failed |-> 0]
    /\ useCaseOp = NoUseCaseOp

\* ------------------------------------------------------------ construction

\* The products Product(...) returns for the given arguments: the ones
\* _validate accepts (it raises for the others, and no product exists).
NewProducts(id, purchases, sellings, quantities) ==
    {p \in {Product_init(id, "name", a, b, q) :
                a \in purchases, b \in sellings, q \in quantities} :
        Product_validate(p)}

NoProductOp ==
    [op |-> "init", arg |-> 0, raising |-> {},
     pre |-> Product_init("id", "name", 0, 0, 0),
     error |-> "none", calls |-> <<>>, failed |-> 0]

NoEmployeeOp ==
    [op |-> "init", arg |-> "", pre |-> Employee_init("WAREHOUSE_WORKER"),
     ret |-> "None"]

NoOrderOp ==
    [op |-> "init", new_status |-> "DRAFT", product_id |-> "", quantity |-> 0,
     stock |-> 0, pre |-> Order_init, error |-> "none", ret |-> "None",
     args |-> <<>>, result |-> <<>>]

\* A Product(purchase 100, selling 150) of any accepted quantity, and a new Order.
Init ==
    /\ product \in NewProducts("id", {100}, {150}, QuantityArgs)
    /\ productOp = NoProductOp
    /\ detached = {}
    /\ order = Order_init
    /\ orderOp = NoOrderOp
    /\ trail = <<"DRAFT">>
    /\ employee = Employee_init("WAREHOUSE_WORKER")
    /\ employeeOp = NoEmployeeOp
    /\ InitRest

\* A Product of quantity 25 with any accepted pair of prices, and a new Order.
InitPricing ==
    /\ product \in NewProducts("id", PriceArgs, PriceArgs, {25})
    /\ productOp = NoProductOp
    /\ detached = {}
    /\ order = Order_init
    /\ orderOp = NoOrderOp
    /\ trail = <<"DRAFT">>
    /\ employee = Employee_init("WAREHOUSE_WORKER")
    /\ employeeOp = NoEmployeeOp
    /\ InitRest

\* A new Order, and the Product(purchase 100, selling 150, quantity 25).
InitOrder ==
    /\ product \in NewProducts("id", {100}, {150}, {25})
    /\ productOp = NoProductOp
    /\ detached = {}
    /\ order = Order_init
    /\ orderOp = NoOrderOp
    /\ trail = <<"DRAFT">>
    /\ employee = Employee_init("WAREHOUSE_WORKER")
    /\ employeeOp = NoEmployeeOp
    /\ InitRest

\* ---------------------------------------------------------- Product actions

QuantityCall(name, amount, raising, r) ==
    /\ product' = r.product
    /\ productOp' = [op |-> name, arg |-> amount, raising |-> raising,
                     pre |-> product,
                     error |-> r.error, calls |-> r.calls, failed |-> r.failed]
    /\ UNCHANGED <<detached, orderVars, employeeVars, restVars>>

IncreaseQuantity ==
    \E amount \in Amounts, raising \in SUBSET Range(product.observers) :
        QuantityCall("increase_quantity", amount, raising,
                     Product_increase_quantity(product, amount, raising))

DecreaseQuantity ==
    \E amount \in Amounts, raising \in SUBSET Range(product.observers) :
        QuantityCall("decrease_quantity", amount, raising,
                     Product_decrease_quantity(product, amount, raising))

\* A direct call of _notify_observers, as the tests make.
NotifyObservers ==
    \E raising \in SUBSET Range(product.observers) :
        LET n == Product_notify_observers(product, raising)
        IN /\ productOp' = [op |-> "notify_observers", arg |-> 0,
                            raising |-> raising, pre |-> product,
                            error |-> IF n.failed = 0 THEN "none" ELSE "ObserverError",
                            calls |-> n.calls, failed |-> n.failed]
           /\ UNCHANGED <<product, detached, orderVars, employeeVars, restVars>>

AttachObserver ==
    \E observer \in Observers :
        /\ product' = Product_attach_observer(product, observer)
        /\ productOp' = [op |-> "attach_observer", arg |-> observer,
                         raising |-> {}, pre |-> product,
                         error |-> "none", calls |-> <<>>, failed |-> 0]
        /\ detached' = detached \ {observer}
        /\ UNCHANGED <<orderVars, employeeVars, restVars>>

DetachObserver ==
    \E observer \in Observers :
        /\ product' = Product_detach_observer(product, observer)
        /\ productOp' = [op |-> "detach_observer", arg |-> observer,
                         raising |-> {}, pre |-> product,
                         error |-> "none", calls |-> <<>>, failed |-> 0]
        /\ detached' = IF observer \in Range(product.observers)
                       THEN detached \cup {observer}
                       ELSE detached
        /\ UNCHANGED <<orderVars, employeeVars, restVars>>

PriceCall(name, value, r) ==
    /\ product' = r.product
    /\ productOp' = [op |-> name, arg |-> value, raising |-> {},
                     pre |-> product,
                     error |-> r.error, calls |-> <<>>, failed |-> 0]
    /\ UNCHANGED <<detached, orderVars, employeeVars, restVars>>

SetPurchasePrice ==
    \E value \in PriceArgs :
        PriceCall("purchase_price", value, Product_set_purchase_price(product, value))

SetSellingPrice ==
    \E value \in PriceArgs :
        PriceCall("selling_price", value, Product_set_selling_price(product, value))

\* ------------------------------------------------------------ Order actions

ProductIds == {"P1", "P2"}

\* Stock of the product handed to add_item, and the quantities asked for.
StockArgs == {0, 2, 3}

ItemQuantities == {-1, 0, 1, 2, 3}

\* Item quantities are explored up to this one.
MaxItemQuantity == 4
ItemPrices == {-50, 0, 80, 150}

ChangeStatus ==
    \E new_status \in Statuses :
        LET r == Order_change_status(order, new_status)
        IN /\ order' = r.order
           /\ orderOp' = [op |-> "change_status", new_status |-> new_status,
                          product_id |-> "", quantity |-> 0, stock |-> 0,
                          pre |-> order, error |-> r.error, ret |-> "None",
                          args |-> <<>>, result |-> <<>>]
           /\ trail' = IF r.error = "none" THEN Append(trail, new_status) ELSE trail
           /\ UNCHANGED <<productVars, employeeVars, restVars>>

AddItem ==
    \E p \in UNION {NewProducts(id, {100}, {150}, StockArgs) : id \in ProductIds},
       quantity \in ItemQuantities :
        LET r == Order_add_item(order, p, quantity)
        IN /\ \A id \in DOMAIN r.order.items :
                  r.order.items[id].quantity <= MaxItemQuantity
           /\ order' = r.order
           /\ orderOp' = [op |-> "add_item", new_status |-> order.status,
                          product_id |-> p.id, quantity |-> quantity,
                          stock |-> p.quantity,
                          pre |-> order, error |-> r.error, ret |-> r.ret,
                          args |-> [product |-> p],
                          result |-> [product |-> r.product, calls |-> r.calls]]
           /\ UNCHANGED <<trail, productVars, employeeVars, restVars>>

\* add_item called with the Product under test.
CartAddItem ==
    \E quantity \in ItemQuantities :
        LET r == Order_add_item(order, product, quantity)
        IN /\ \A id \in DOMAIN r.order.items :
                  r.order.items[id].quantity <= MaxItemQuantity
           /\ order' = r.order
           /\ product' = r.product
           /\ orderOp' = [op |-> "add_item", new_status |-> order.status,
                          product_id |-> product.id, quantity |-> quantity,
                          stock |-> product.quantity,
                          pre |-> order, error |-> r.error, ret |-> r.ret,
                          args |-> [product |-> product],
                          result |-> [product |-> r.product, calls |-> r.calls]]
           /\ UNCHANGED <<trail, productOp, detached, employeeVars, restVars>>

RemoveItem ==
    \E product_id \in ProductIds :
        LET r == Order_remove_item(order, product_id)
        IN /\ order' = r.order
           /\ orderOp' = [op |-> "remove_item", new_status |-> order.status,
                          product_id |-> product_id, quantity |-> 0, stock |-> 0,
                          pre |-> order, error |-> r.error, ret |-> r.ret,
                          args |-> <<>>, result |-> <<>>]
           /\ UNCHANGED <<trail, productVars, employeeVars, restVars>>

UpdateItemQuantity ==
    \E product_id \in ProductIds, new_quantity \in ItemQuantities :
        LET r == Order_update_item_quantity(order, product_id, new_quantity)
        IN /\ order' = r.order
           /\ orderOp' = [op |-> "update_item_quantity", new_status |-> order.status,
                          product_id |-> product_id, quantity |-> new_quantity,
                          stock |-> 0,
                          pre |-> order, error |-> r.error, ret |-> r.ret,
                          args |-> <<>>, result |-> <<>>]
           /\ UNCHANGED <<trail, productVars, employeeVars, restVars>>

\* A call made on one of the order's OrderItem objects, as get_items hands
\* them out: r is what the call made of the item.
ItemCall(name, product_id, arg, r) ==
    /\ r.item.quantity <= MaxItemQuantity
    /\ order' = [order EXCEPT !.items[product_id] = r.item]
    /\ orderOp' = [op |-> name, new_status |-> order.status,
                   product_id |-> product_id, quantity |-> arg, stock |-> 0,
                   pre |-> order, error |-> r.error, ret |-> "None",
                   args |-> <<>>, result |-> <<>>]
    /\ UNCHANGED <<trail, productVars, employeeVars, restVars>>

ItemIncreaseQuantity ==
    \E product_id \in DOMAIN order.items, amount \in ItemQuantities :
        ItemCall("OrderItem.increase_quantity", product_id, amount,
                 OrderItem_increase_quantity(order.items[product_id], amount))

ItemDecreaseQuantity ==
    \E product_id \in DOMAIN order.items, amount \in ItemQuantities :
        ItemCall("OrderItem.decrease_quantity", product_id, amount,
                 OrderItem_decrease_quantity(order.items[product_id], amount))

ItemUpdatePrice ==
    \E product_id \in DOMAIN order.items, new_price \in ItemPrices :
        ItemCall("OrderItem.update_price", product_id, new_price,
                 OrderItem_update_price(order.items[product_id], new_price))

\* Tax rates in hundredths (-0.1, 0, 0.1, 1, 1.1), discount percentages and
\* shipping costs in whole units.
TaxRates == {-10, 0, 10, 100, 110}
DiscountPercentages == {-1, 0, 25, 100, 101}
ShippingCosts == {NoShippingCost} \cup {ShippingCost(Dec(c)) : c \in {-900, 0, 20}}

CalculateTotal ==
    \E tax_rate \in TaxRates, shipping_cost \in ShippingCosts,
       discount_percentage \in DiscountPercentages :
        LET r == Order_calculate_total(order, tax_rate, shipping_cost,
                                       Dec(discount_percentage))
        IN /\ orderOp' = [op |-> "calculate_total", new_status |-> order.status,
                          product_id |-> "", quantity |-> 0, stock |-> 0,
                          pre |-> order, error |-> r.error, ret |-> "Money",
                          args |-> [tax_rate |-> tax_rate,
                                    shipping_cost |-> shipping_cost,
                                    discount_percentage |-> discount_percentage],
                          result |-> [amount |-> r.amount]]
           /\ UNCHANGED <<order, trail, productVars, employeeVars, restVars>>

\* A bool as Python returns it.
Bool(b) == IF b THEN "True" ELSE "False"

\* A call of one of the status predicates, which returned b.
StatusQuery(name, b) ==
    /\ orderOp' = [op |-> name, new_status |-> order.status,
                   product_id |-> "", quantity |-> 0, stock |-> 0,
                   pre |-> order, error |-> "none", ret |-> Bool(b),
                   args |-> <<>>, result |-> <<>>]
    /\ UNCHANGED <<order, trail, productVars, employeeVars, restVars>>

CanBeCancelled == StatusQuery("can_be_cancelled", Order_can_be_cancelled(order))

CanBeModified == StatusQuery("can_be_modified", Order_can_be_modified(order))

IsCompleted == StatusQuery("is_completed", Order_is_completed(order))

\* --------------------------------------------------------- Employee actions

Tasks == {"T1", "T2"}

EmployeeCall(name, arg, e, ret) ==
    /\ employee' = e
    /\ employeeOp' = [op |-> name, arg |-> arg, pre |-> employee, ret |-> ret]
    /\ UNCHANGED <<productVars, orderVars, restVars>>

SetRole ==
    \E value \in Roles :
        EmployeeCall("role", value, Employee_set_role(employee, value), "None")

\* can_manage called with an Employee of each role.
CanManage ==
    \E role \in Roles :
        EmployeeCall("can_manage", role, employee,
                     IF Employee_can_manage(employee, Employee_init(role))
                     THEN "True" ELSE "False")

AssignTask ==
    \E task \in Tasks :
        EmployeeCall("assign_task", task, Employee_assign_task(employee, task), "None")

RemoveTask ==
    \E task \in Tasks :
        LET r == Employee_remove_task(employee, task)
        IN EmployeeCall("remove_task", task, r.employee, r.ret)

\* ------------------------------------------------------------ Money actions

\* Amounts: 0, 1, 1.50, -5, 1E-28, and 1.0000000000000000000000000001, which
\* has one digit more than the context keeps.
MoneyAmounts ==
    {Decimal(<<0>>, 0), Decimal(<<1>>, 0), Decimal(<<1, 5, 0>>, -2),
     Decimal_neg(Decimal(<<5>>, 0)), Decimal(<<1>>, -DecimalPrec),
     Decimal(<<1>> \o Zeros(DecimalPrec - 1) \o <<1>>, -DecimalPrec)}

Moneys == {Money(amount, currency) : amount \in MoneyAmounts, currency \in {"USD", "EUR"}}

MoneyInts == {0, 1, 2}

\* An operation on Money values; prior is the addition whose result is self,
\* if the last operation was one.
MoneyCall(name, self, other, n, r) ==
    /\ moneyOp' = [op |-> name, self |-> self, other |-> other, n |-> n,
                   error |-> r.error, result |-> r.result,
                   after |-> <<r.self, r.other>>,
                   prior |-> IF moneyOp.op = "add" /\ moneyOp.error = "none"
                                /\ self = moneyOp.result
                             THEN <<[self |-> moneyOp.self, other |-> moneyOp.other]>>
                             ELSE <<>>]
    /\ UNCHANGED <<productVars, orderVars, employeeVars, decoratorVars, reportVars,
                   useCaseVars>>

MoneyAdd ==
    \E self \in Moneys, other \in Moneys :
        MoneyCall("add", self, other, 0, Money_add(self, other))

\* m - other, m a Money or the sum just made.
MoneySub ==
    \E self \in Moneys \cup (IF moneyOp.op = "add" /\ moneyOp.error = "none"
                              THEN {moneyOp.result} ELSE {}),
       other \in Moneys :
        MoneyCall("sub", self, other, 0, Money_sub(self, other))

MoneyMul ==
    \E self \in Moneys, quantity \in MoneyInts :
        MoneyCall("mul", self, self, quantity, Money_mul_int(self, quantity))

MoneyTruediv ==
    \E self \in Moneys, divisor \in MoneyInts :
        MoneyCall("truediv", self, self, divisor, Money_truediv(self, divisor))

\* -------------------------------------------------------- decorator actions

MaxDepth == 2

Decorators ==
    {DiscountedProduct(10), DiscountedProduct(20),
     FeaturedProduct("Special Offer", "gold"), LimitedEditionProduct(1, 1000)}

\* Attributes read through the chain: four of the Product, one of a decorator.
ReadNames == {"name", "category", "quantity", "selling_price", "discount_percentage"}

\* A call on the outermost decorator: what it returned or raised, and the
\* product before and after it.
ChainCall(name, arg, error, result, post) ==
    /\ Len(chain) >= 1
    /\ product' = post
    /\ chainOp' = [op |-> name, arg |-> arg, depth |-> Len(chain),
                   error |-> error, result |-> result,
                   pre |-> product, post |-> post]
    /\ UNCHANGED <<chain, productOp, detached, orderVars, employeeVars, moneyVars,
                   reportVars, useCaseVars>>

\* A decorator is built around the outermost one, or around the product.
Wrap ==
    \E layer \in Decorators :
        /\ Len(chain) < MaxDepth
        /\ chain' = Append(chain, layer)
        /\ chainOp' = [op |-> "wrap", arg |-> layer.type, depth |-> Len(chain) + 1,
                       error |-> "none", result |-> <<>>,
                       pre |-> product, post |-> product]
        /\ UNCHANGED <<productVars, orderVars, employeeVars, moneyVars, reportVars,
                       useCaseVars>>

ChainGetAttr ==
    \E name \in ReadNames :
        LET r == Decorator_getattr(chain, Len(chain), product, name)
        IN ChainCall("getattr", name, r.error, r.value, product)

ChainGetDetails ==
    \E tick \in {0, 1} :
        ChainCall("get_details", "", "none",
                  Decorator_get_details(chain, Len(chain), product, tick), product)

ChainGetSellingPrice ==
    LET r == Decorator_get_selling_price(chain, Len(chain), product)
    IN ChainCall("get_selling_price", "", r.error, r.value, r.product)

\* The object k steps of decorated_product below layer n.
RECURSIVE Unwrapped(_, _, _)
Unwrapped(layers, n, k) ==
    IF k = 0 THEN n
    ELSE Unwrapped(layers, Decorator_decorated_product(layers, n), k - 1)

\* decorated_product followed once for every decorator of the chain.
ChainUnwrap ==
    ChainCall("decorated_product", "", "none",
              Unwrapped(chain, Len(chain), Len(chain)), product)

\* -------------------------------------------------- ReportGenerator actions

GeneratorTypes == {"InventoryReportGenerator", "SalesReportGenerator"}
Collected == {"no rows", "rows A", "rows B"}
Clock == {0, 1}
Processed == {"empty summary", "summary X", "summary Y"}

ReportStep(next) ==
    /\ report' = next
    /\ UNCHANGED <<productVars, orderVars, employeeVars, moneyVars, decoratorVars,
                   useCaseVars>>

GenerateReport ==
    /\ report.pc \in {"idle", "done", "failed"}
    /\ ReportStep(Report_generate_report(report))

\* The step the run is at raises.
StepRaises ==
    /\ report.pc \in {"validate", "collect", "process", "format", "save"}
    /\ ReportStep(Report_raised(report, report.pc,
                                CASE report.pc = "process" -> <<report.data>>
                                  [] report.pc = "format" -> <<report.processed_data>>
                                  [] report.pc = "save" -> report.report
                                  [] OTHER -> <<>>))

ValidateData ==
    /\ report.pc = "validate"
    /\ ReportStep(Report_validate_data(report))

CollectData ==
    /\ report.pc = "collect"
    /\ \E collected \in Collected : ReportStep(Report_collect_data(report, collected))

ProcessData ==
    /\ report.pc = "process"
    /\ \E processed \in Processed : ReportStep(Report_process_data(report, processed))

FormatReport ==
    /\ report.pc = "format"
    /\ \E type \in GeneratorTypes, now \in Clock :
           ReportStep(Report_format_report(report, type, now))

SaveReport ==
    /\ report.pc = "save"
    /\ ReportStep(Report_save_report(report))

\* --------------------------------------------------------- use-case actions

OrderIds == {"O1", "O2"}

\* Quantities asked of add_product_to_order: none, and some of the stock.
AddQuantities == {0, 4}

\* Quantities asked of restock_product: two that bring a stock lowered by
\* process_order close to and up to MAX_STOCK_LEVEL.
RestockQuantities == {994, 998}

\* The process_order and cancel_order calls explored that failed with stock
\* changed.
MaxFailed == 1

\* Orders are explored up to this quantity of one product.
MaxOrdered == 8

\* What the calls after a successful process_order did: "none" of them, only
\* "restock" calls, or "other" calls as well ("never" when no process_order
\* succeeded). The products as they were before process_order are kept until
\* the first of these calls. failed counts the process_order and cancel_order
\* calls that failed with stock changed.
Since(kind) ==
    IF taken.since = "never"
    THEN taken
    ELSE [taken EXCEPT !.products = <<>>,
                       !.since = IF kind = "restock" /\ taken.since # "other"
                                 THEN "restock" ELSE "other"]

\* The call that left r is explored: not one more failure with stock changed
\* than MaxFailed.
Explored(r) ==
    (r.error # "none" /\ r.products # products) => taken.failed < MaxFailed

UseCaseCall(name, r, order_id, product_id, quantity, new_status) ==
    /\ products' = r.products
    /\ orders' = r.orders
    /\ useCaseOp' = [op |-> name, order_id |-> order_id, product_id |-> product_id,
                     quantity |-> quantity, new_status |-> new_status,
                     error |-> r.error, stage |-> r.stage,
                     pre |-> [products |-> products, orders |-> orders,
                              taken |-> taken]]
    /\ UNCHANGED <<productVars, orderVars, employeeVars, moneyVars, decoratorVars,
                   reportVars>>

AddProductToOrder ==
    \E order_id \in OrderIds, product_id \in ProductIds, quantity \in AddQuantities :
        LET r == add_product_to_order(products, orders, order_id, product_id, quantity)
        IN /\ \A o \in DOMAIN r.orders : \A id \in DOMAIN r.orders[o].order.items :
                  r.orders[o].order.items[id].quantity <= MaxOrdered
           /\ UseCaseCall("add_product_to_order", r, order_id, product_id, quantity, "")
           /\ taken' = Since("other")

RestockProduct ==
    \E product_id \in ProductIds, quantity \in RestockQuantities :
        /\ UseCaseCall("restock_product",
                       restock_product(products, orders, product_id, quantity),
                       "", product_id, quantity, "")
        /\ taken' = Since("restock")

\* product_repository.delete(product_id)
DeleteProduct ==
    \E product_id \in DOMAIN products :
        /\ UseCaseCall("delete",
                       Outcome(Repository_delete(products, product_id), orders,
                               "none", "return"),
                       "", product_id, 0, "")
        /\ taken' = Since("other")

\* order.change_status(new_status) on the stored order, then save.
StoredChangeStatus ==
    \E order_id \in DOMAIN orders, new_status \in Statuses :
        LET c == Order_change_status(orders[order_id].order, new_status)
        IN /\ UseCaseCall("change_status",
                          Outcome(products,
                                  Repository_save(orders, order_id,
                                      [orders[order_id] EXCEPT !.order = c.order]),
                                  c.error, "change_status"),
                          order_id, "", 0, new_status)
           /\ taken' = Since("other")

\* The count of failed calls that changed stock, after the call that left r.
Failed(r) ==
    IF r.error # "none" /\ r.products # products
    THEN taken.failed + 1
    ELSE taken.failed

ProcessOrder ==
    \E order_id \in OrderIds :
        LET r == process_order(products, orders, order_id)
        IN /\ Explored(r)
           /\ UseCaseCall("process_order", r, order_id, "", 0, "")
           /\ taken' = IF r.error = "none"
                       THEN [products |-> products, since |-> "none",
                             failed |-> taken.failed]
                       ELSE [Since("other") EXCEPT !.failed = Failed(r)]

CancelOrder ==
    \E order_id \in OrderIds :
        LET r == cancel_order(products, orders, order_id)
        IN /\ Explored(r)
           /\ UseCaseCall("cancel_order", r, order_id, "", 0, "")
           /\ taken' = IF r.error = "none"
                       THEN taken
                       ELSE [Since("other") EXCEPT !.failed = Failed(r)]

\* ----------------------------------------------------------- specifications

\* Stock and observers of one Product.
Next ==
    \/ IncreaseQuantity
    \/ DecreaseQuantity
    \/ NotifyObservers
    \/ AttachObserver
    \/ DetachObserver

Spec == Init /\ [][Next]_vars

\* The price setters of one Product.
NextPricing ==
    \/ SetPurchasePrice
    \/ SetSellingPrice

SpecPricing == InitPricing /\ [][NextPricing]_vars

\* The amounts taken out of the stock of the Product an Order is filled from.
CartAmounts == {-1, 2}

\* decrease_quantity on the Product an Order is filled from, no observer raising.
CartDecreaseQuantity ==
    \E amount \in CartAmounts :
        QuantityCall("decrease_quantity", amount, {},
                     Product_decrease_quantity(product, amount, {}))

\* A Product of id P1 and of low stock, and a new Order.
InitCart ==
    /\ product \in NewProducts("P1", {100}, {150}, {3})
    /\ productOp = NoProductOp
    /\ detached = {}
    /\ order = Order_init
    /\ orderOp = NoOrderOp
    /\ trail = <<"DRAFT">>
    /\ employee = Employee_init("WAREHOUSE_WORKER")
    /\ employeeOp = NoEmployeeOp
    /\ InitRest

\* One Order filled from one Product that has observers and changes stock.
NextCart ==
    \/ CartAddItem
    \/ RemoveItem
    \/ UpdateItemQuantity
    \/ AttachObserver
    \/ CartDecreaseQuantity

SpecCart == InitCart /\ [][NextCart]_vars

\* The OrderItems of one Order, made and changed by the order and directly.
NextItem ==
    \/ AddItem
    \/ UpdateItemQuantity
    \/ ItemIncreaseQuantity
    \/ ItemDecreaseQuantity
    \/ ItemUpdatePrice

SpecItem == InitOrder /\ [][NextItem]_vars

\* The totals of one Order as its items change.
NextTotals ==
    \/ AddItem
    \/ UpdateItemQuantity
    \/ ItemUpdatePrice
    \/ CalculateTotal

SpecTotals == InitOrder /\ [][NextTotals]_vars

\* The status of one Order and its predicates.
NextStatus ==
    \/ ChangeStatus
    \/ CanBeCancelled
    \/ CanBeModified
    \/ IsCompleted

SpecStatus == InitOrder /\ [][NextStatus]_vars

\* An Employee of any role.
InitEmployee ==
    /\ product \in NewProducts("P1", {100}, {150}, {3})
    /\ productOp = NoProductOp
    /\ detached = {}
    /\ order = Order_init
    /\ orderOp = NoOrderOp
    /\ trail = <<"DRAFT">>
    /\ employee \in {Employee_init(role) : role \in Roles}
    /\ employeeOp = [NoEmployeeOp EXCEPT !.pre = employee]
    /\ InitRest

\* Role and tasks of one Employee.
NextEmployee ==
    \/ SetRole
    \/ CanManage
    \/ AssignTask
    \/ RemoveTask

SpecEmployee == InitEmployee /\ [][NextEmployee]_vars

\* No Money operation made yet.
InitMoney ==
    /\ product \in NewProducts("P1", {100}, {150}, {3})
    /\ productOp = NoProductOp
    /\ detached = {}
    /\ order = Order_init
    /\ orderOp = NoOrderOp
    /\ trail = <<"DRAFT">>
    /\ employee = Employee_init("WAREHOUSE_WORKER")
    /\ employeeOp = NoEmployeeOp
    /\ InitRest

\* Arithmetic on Money values.
NextMoney ==
    \/ MoneyAdd
    \/ MoneySub
    \/ MoneyMul
    \/ MoneyTruediv

SpecMoney == InitMoney /\ [][NextMoney]_vars

\* A Product that changes under the decorators wrapped around it.
NextDecorator ==
    \/ Wrap
    \/ ChainGetAttr
    \/ ChainGetDetails
    \/ ChainGetSellingPrice
    \/ ChainUnwrap
    \/ CartDecreaseQuantity
    \/ SetSellingPrice

SpecDecorator == InitMoney /\ [][NextDecorator]_vars

\* The runs of generate_report().
NextReport ==
    \/ GenerateReport
    \/ ValidateData
    \/ CollectData
    \/ ProcessData
    \/ FormatReport
    \/ SaveReport
    \/ StepRaises

SpecReport == InitMoney /\ [][NextReport]_vars

\* One order and two products in the repositories: the order is filled and
\* processed while products are deleted.
NextProcess ==
    \/ AddProductToOrder
    \/ DeleteProduct
    \/ StoredChangeStatus
    \/ ProcessOrder

SpecProcess == InitMoney /\ [][NextProcess]_vars

\* One order and two products in the repositories: the order is filled,
\* processed and cancelled while products are restocked.
NextCancel ==
    \/ AddProductToOrder
    \/ StoredChangeStatus
    \/ ProcessOrder
    \/ RestockProduct
    \/ CancelOrder

SpecCancel == InitMoney /\ [][NextCancel]_vars

\* Items and status of one Order.
NextOrder ==
    \/ ChangeStatus
    \/ AddItem
    \/ RemoveItem
    \/ UpdateItemQuantity

SpecOrder == InitOrder /\ [][NextOrder]_vars

\* ------------------------------------------------------------------ claims

QuantityOps == {"increase_quantity", "decrease_quantity"}

ItemOps == {"add_item", "remove_item", "update_item_quantity"}

\* The observers the calls of the last operation went to, in call order.
Called == [i \in 1..Len(productOp.calls) |-> productOp.calls[i].observer]

\* The transition table as the specification gives it.
TransitionTable ==
    {<<"DRAFT", "PENDING">>, <<"DRAFT", "CANCELLED">>,
     <<"PENDING", "CONFIRMED">>, <<"PENDING", "CANCELLED">>,
     <<"CONFIRMED", "PROCESSING">>, <<"CONFIRMED", "CANCELLED">>,
     <<"PROCESSING", "SHIPPED">>, <<"PROCESSING", "CANCELLED">>,
     <<"SHIPPED", "DELIVERED">>, <<"DELIVERED", "REFUNDED">>}

\* C1: change_status(new) succeeds, and sets the status to new, exactly when
\* (current status, new) is an edge of the transition table; for every other
\* pair it fails and the status is unchanged.
C1_ChangeStatusFollowsTable ==
    orderOp.op = "change_status" =>
        IF <<orderOp.pre.status, orderOp.new_status>> \in TransitionTable
        THEN orderOp.error = "none" /\ order.status = orderOp.new_status
        ELSE orderOp.error = "ValueError" /\ order.status = orderOp.pre.status

\* C1 witness: a delivered order refused the move back to PROCESSING.
C1_Witness ==
    /\ orderOp.op = "change_status"
    /\ orderOp.pre.status = "DELIVERED"
    /\ orderOp.new_status = "PROCESSING"
    /\ orderOp.error = "ValueError"

\* C2: add_item, remove_item and update_item_quantity called on an order whose
\* status is neither DRAFT nor PENDING fail and leave the items unchanged.
C2_ItemsFrozenUnlessDraftOrPending ==
    (orderOp.op \in ItemOps /\ orderOp.pre.status \notin {"DRAFT", "PENDING"}) =>
        /\ orderOp.error # "none" \/ orderOp.ret = "False"
        /\ order.items = orderOp.pre.items

\* C3: the quantity of a product is between 0 and 1000 after construction and
\* after every increase_quantity / decrease_quantity call, successful or not.
C3_QuantityInBounds == 0 <= product.quantity /\ product.quantity <= 1000

\* C3 witness: an increase that would pass 1000 was made and refused.
C3_Witness ==
    /\ productOp.op = "increase_quantity"
    /\ productOp.arg >= 0
    /\ productOp.pre.quantity + productOp.arg > 1000
    /\ productOp.error = "ValueError"

\* C4: after construction and every assignment to purchase_price or
\* selling_price, both prices are positive and selling_price >= purchase_price.
C4_PricingInvariant ==
    /\ product.selling_price > 0
    /\ product.purchase_price > 0
    /\ product.selling_price >= product.purchase_price

\* C5: after a successful increase_quantity or decrease_quantity, if the new
\* quantity is <= 10 every attached observer got exactly one
\* update(id, name, new quantity, 10), in attachment order; if it is > 10
\* no observer was called.
C5_LowStockNotification ==
    (productOp.op \in QuantityOps /\ productOp.error = "none") =>
        IF product.quantity <= 10
        THEN productOp.calls =
                 [i \in 1..Len(product.observers) |->
                     [observer |-> product.observers[i],
                      product_id |-> product.id, product_name |-> product.name,
                      quantity |-> product.quantity, threshold |-> 10]]
        ELSE productOp.calls = <<>>

\* C5 witness: a decrease to a low quantity notified two observers or more.
C5_Witness ==
    /\ productOp.op = "decrease_quantity"
    /\ productOp.error = "none"
    /\ productOp.arg > 0
    /\ product.quantity <= 10
    /\ Len(productOp.calls) >= 2

\* C6: when an observer raises during the notification of an increase_quantity or
\* decrease_quantity, the caller gets that error, the quantity change stays,
\* the observers attached before the raising one were notified and the ones
\* attached after it were not.
C6_ObserverErrorPropagates ==
    LET obs == product.observers
        new == IF productOp.op = "increase_quantity"
               THEN productOp.pre.quantity + productOp.arg
               ELSE productOp.pre.quantity - productOp.arg
    IN (/\ productOp.op \in QuantityOps
        /\ productOp.error # "ValueError"
        /\ new <= 10
        /\ productOp.raising # {}) =>
           /\ productOp.error = "ObserverError"
           /\ product.quantity = new
           /\ \E k \in 1..Len(obs) :
                 /\ obs[k] \in productOp.raising
                 /\ \A i \in 1..(k - 1) : obs[i] \in Range(Called)
                 /\ \A i \in (k + 1)..Len(obs) : obs[i] \notin Range(Called)

\* C6 witness: the second of three observers raised during a decrease.
C6_Witness ==
    /\ productOp.op = "decrease_quantity"
    /\ productOp.arg > 0
    /\ productOp.error = "ObserverError"
    /\ Len(product.observers) >= 3
    /\ productOp.failed = 2

\* C7: a decrease_quantity with a negative amount or one above the quantity,
\* and an increase_quantity with a negative amount or one taking the quantity
\* above 1000, fail, leave the product as it was and notify no observer.
C7_FailedMutationChangesNothing ==
    (\/ /\ productOp.op = "decrease_quantity"
        /\ (productOp.arg < 0 \/ productOp.arg > productOp.pre.quantity)
     \/ /\ productOp.op = "increase_quantity"
        /\ (productOp.arg < 0 \/ productOp.pre.quantity + productOp.arg > 1000)) =>
        /\ productOp.error = "ValueError"
        /\ product.quantity = productOp.pre.quantity
        /\ productOp.calls = <<>>

\* C7 witness: a decrease beyond the stock of a low-stock product with observers.
C7_Witness ==
    /\ productOp.op = "decrease_quantity"
    /\ productOp.arg > productOp.pre.quantity
    /\ productOp.pre.quantity <= 10
    /\ Len(product.observers) >= 1
    /\ productOp.error = "ValueError"

HappyPath ==
    <<"DRAFT", "PENDING", "CONFIRMED", "PROCESSING", "SHIPPED", "DELIVERED",
      "REFUNDED">>

C9_DetachedNotNotified ==
    /\ \A o \in Range(Called) : o \notin detached
    /\ (/\ productOp.op \in QuantityOps \cup {"notify_observers"}
        /\ productOp.error = "none"
        /\ product.quantity <= 10) =>
           \A o \in Range(product.observers) : o \in Range(Called)

\* C9 witness: with one observer detached, a quantity mutation notified another.
C9_Witness ==
    /\ productOp.op \in QuantityOps
    /\ detached # {}
    /\ productOp.calls # <<>>

\* C10: attaching an attached observer leaves the observer list as it was; no
\* notification calls an observer twice; after detach_observer(o), o is not in
\* the list.
C10_AttachTwiceIsNoOp ==
    /\ (/\ productOp.op = "attach_observer"
        /\ productOp.arg \in Range(productOp.pre.observers)) =>
           product.observers = productOp.pre.observers
    /\ \A i, j \in 1..Len(Called) : i # j => Called[i] # Called[j]
    /\ productOp.op = "detach_observer" =>
           productOp.arg \notin Range(product.observers)

\* C10 witness: the first of several attached observers was attached again.
C10_Witness ==
    /\ productOp.op = "attach_observer"
    /\ Len(productOp.pre.observers) >= 2
    /\ productOp.arg = productOp.pre.observers[1]

\* The quantity and total of the item of product id after an add_item of
\* quantity more, the other fields and the other items being as before.
ItemRaised(id, quantity) ==
    /\ orderOp.error = "none"
    /\ DOMAIN order.items = DOMAIN orderOp.pre.items
    /\ \A x \in DOMAIN order.items \ {id} : order.items[x] = orderOp.pre.items[x]
    /\ order.items[id] =
           [orderOp.pre.items[id] EXCEPT
               !.quantity = orderOp.pre.items[id].quantity + quantity,
               !.total_price = orderOp.pre.items[id].unit_price
                                   * (orderOp.pre.items[id].quantity + quantity)]

\* A new item of product p with the quantity asked, at p's selling price.
ItemCreated(p, quantity) ==
    /\ orderOp.error = "none"
    /\ DOMAIN order.items = DOMAIN orderOp.pre.items \cup {p.id}
    /\ \A x \in DOMAIN orderOp.pre.items : order.items[x] = orderOp.pre.items[x]
    /\ order.items[p.id].quantity = quantity
    /\ order.items[p.id].unit_price = p.selling_price

AddItemFailed == orderOp.error # "none" /\ order.items = orderOp.pre.items

\* C11 as claimed: add_item(product, qty) fails with the items unchanged when
\* product.quantity < qty, and otherwise raises the item's quantity by qty (total
\* recomputed, no second item) or creates an item of quantity qty at the
\* product's selling price.
C11_AddItemAsClaimed ==
    orderOp.op = "add_item" =>
        LET p == orderOp.args.product
            qty == orderOp.quantity
        IN IF p.quantity < qty
           THEN AddItemFailed
           ELSE IF p.id \in DOMAIN orderOp.pre.items
           THEN ItemRaised(p.id, qty)
           ELSE ItemCreated(p, qty)

\* C11 amended: add_item(product, qty) fails with the items unchanged when
\* product.quantity < qty or qty <= 0; otherwise as claimed.
C11_AddItem ==
    orderOp.op = "add_item" =>
        LET p == orderOp.args.product
            qty == orderOp.quantity
        IN IF p.quantity < qty \/ qty <= 0
           THEN AddItemFailed
           ELSE IF p.id \in DOMAIN orderOp.pre.items
           THEN ItemRaised(p.id, qty)
           ELSE ItemCreated(p, qty)

\* C11 witness: a second add_item of a product raised the quantity of its item.
C11_Witness ==
    /\ orderOp.op = "add_item"
    /\ orderOp.error = "none"
    /\ orderOp.product_id \in DOMAIN orderOp.pre.items
    /\ orderOp.pre.items[orderOp.product_id].quantity = 2
    /\ order.items[orderOp.product_id].quantity = 3
    /\ Cardinality(DOMAIN order.items) = 2

\* C12: a step that changes the order is an add_item, remove_item or
\* update_item_quantity, and it changes neither the product nor the record of
\* the product's last call, and calls no observer; a step that changes the
\* product's quantity is an increase_quantity or decrease_quantity.
C12_ItemOpsLeaveStock ==
    [][/\ (order' # order \/ orderOp' # orderOp) =>
              /\ orderOp'.op \in ItemOps
              /\ product' = product
              /\ productOp' = productOp
              /\ orderOp'.op = "add_item" =>
                     /\ orderOp'.result.product = product
                     /\ orderOp'.result.calls = <<>>
       /\ product'.quantity # product.quantity =>
              /\ productOp'.op \in QuantityOps
              /\ productOp'.pre = product
              /\ UNCHANGED <<order, orderOp>>]_vars

\* C12 witness: an add_item of a low-stock product with observers succeeded.
C12_Witness ==
    /\ orderOp.op = "add_item"
    /\ orderOp.error = "none"
    /\ orderOp.args.product = product
    /\ Len(product.observers) >= 1
    /\ product.quantity <= 10
    /\ productOp.op = "decrease_quantity"

\* The call removed the item of product id and nothing else.
ItemRemoved(id) ==
    /\ DOMAIN order.items = DOMAIN orderOp.pre.items \ {id}
    /\ \A x \in DOMAIN order.items : order.items[x] = orderOp.pre.items[x]

\* C13: remove_item(id) returns true and removes the item when id is in the
\* order, and returns false with the items unchanged otherwise;
\* update_item_quantity(id, n) returns false with the items unchanged when id is
\* absent, removes the item and returns true when n <= 0, and otherwise sets the
\* item's quantity to n and returns true.
C13_RemoveAndUpdate ==
    LET id == orderOp.product_id
        n == orderOp.quantity
        present == id \in DOMAIN orderOp.pre.items
    IN /\ orderOp.op = "remove_item" =>
              /\ orderOp.error = "none"
              /\ IF present
                 THEN orderOp.ret = "True" /\ ItemRemoved(id)
                 ELSE orderOp.ret = "False" /\ order.items = orderOp.pre.items
       /\ orderOp.op = "update_item_quantity" =>
              /\ orderOp.error = "none"
              /\ IF ~present
                 THEN orderOp.ret = "False" /\ order.items = orderOp.pre.items
                 ELSE IF n <= 0
                 THEN orderOp.ret = "True" /\ ItemRemoved(id)
                 ELSE /\ orderOp.ret = "True"
                      /\ DOMAIN order.items = DOMAIN orderOp.pre.items
                      /\ order.items[id].quantity = n
                      /\ \A x \in DOMAIN order.items \ {id} :
                             order.items[x] = orderOp.pre.items[x]

\* C13 witness: update_item_quantity(id, 0) removed one of the order's two items.
C13_Witness ==
    /\ orderOp.op = "update_item_quantity"
    /\ orderOp.quantity = 0
    /\ orderOp.ret = "True"
    /\ Cardinality(DOMAIN orderOp.pre.items) = 2
    /\ Cardinality(DOMAIN order.items) = 1
    /\ orderOp.product_id \notin DOMAIN order.items

OrderItemOps ==
    {"OrderItem.increase_quantity", "OrderItem.decrease_quantity",
     "OrderItem.update_price"}

\* C14: every OrderItem has total_price = unit_price x quantity, after
\* construction, increase_quantity, decrease_quantity, update_price, add_item and
\* update_item_quantity, failed or not.
C14_TotalIsPriceTimesQuantity ==
    \A id \in DOMAIN order.items :
        order.items[id].total_price
            = order.items[id].unit_price * order.items[id].quantity

\* C14 witness: update_price changed the price of an item of two units or more.
C14_Witness ==
    /\ orderOp.op = "OrderItem.update_price"
    /\ orderOp.error = "none"
    /\ order.items[orderOp.product_id].quantity >= 2
    /\ order.items[orderOp.product_id].unit_price
           # orderOp.pre.items[orderOp.product_id].unit_price

\* C15: every OrderItem has quantity > 0 and unit_price.amount > 0, after
\* construction and any successful or failed increase_quantity,
\* decrease_quantity and update_price.
C15_ItemPositive ==
    \A id \in DOMAIN order.items :
        order.items[id].quantity > 0 /\ order.items[id].unit_price > 0

\* The subtotal S, the unit count and the shipping cost C of the order the
\* last call was made on, in hundredths.
ClaimedSubtotal ==
    Sum([id \in DOMAIN order.items |->
            order.items[id].unit_price * order.items[id].quantity * 100],
        DOMAIN order.items)

ClaimedShipping ==
    LET units == Sum([id \in DOMAIN order.items |-> order.items[id].quantity],
                     DOMAIN order.items)
    IN IF orderOp.args.shipping_cost.given
       THEN orderOp.args.shipping_cost.amount
       ELSE IF DOMAIN order.items = {} THEN 0 ELSE (10 + units) * 100

\* C16: for tax rate r in [0,1] and discount percentage d in [0,100],
\* calculate_total returns max(0, S + S*r + C - S*d/100), with C the shipping cost
\* given, or 10 + 1 per unit when none is given, 0 for an empty order.
C16_CalculateTotal ==
    (/\ orderOp.op = "calculate_total"
     /\ 0 <= orderOp.args.tax_rate /\ orderOp.args.tax_rate <= 100
     /\ 0 <= orderOp.args.discount_percentage
     /\ orderOp.args.discount_percentage <= 100) =>
        LET S == ClaimedSubtotal
            sum == S + (S * orderOp.args.tax_rate) \div 100 + ClaimedShipping
                     - (S * orderOp.args.discount_percentage) \div 100
        IN /\ orderOp.error = "none"
           /\ orderOp.result.amount = IF sum < 0 THEN 0 ELSE sum

\* C16 witness: a total of two items with tax 10%, a given shipping cost of zero
\* and a discount of 25%.
C16_Witness ==
    /\ orderOp.op = "calculate_total"
    /\ orderOp.error = "none"
    /\ Cardinality(DOMAIN order.items) = 2
    /\ orderOp.args.tax_rate = 10
    /\ orderOp.args.discount_percentage = 25
    /\ orderOp.args.shipping_cost = ShippingCost(0)
    /\ orderOp.result.amount > 0

\* C17: increase_quantity(a) followed by decrease_quantity(a), neither one
\* rejected for a bound, leaves the quantity the product had before the two.
C17_IncreaseThenDecrease ==
    [][(/\ productOp.op = "increase_quantity"
        /\ productOp.error # "ValueError"
        /\ productOp'.op = "decrease_quantity"
        /\ productOp'.arg = productOp.arg
        /\ productOp'.pre = product
        /\ productOp'.error # "ValueError")
           => product'.quantity = productOp.pre.quantity]_vars

\* C17 witness: a decrease_quantity(250) that undid an increase_quantity(250).
C17_Witness ==
    /\ productOp.op = "decrease_quantity"
    /\ productOp.arg = 250
    /\ productOp.error # "ValueError"
    /\ productOp.pre.quantity = product.quantity + 250
    /\ product.quantity = 11

\* C18: along the change_status calls made on an order no status is entered a
\* second time, at most 6 calls succeed, and after the sixth every call fails.
C18_StatusGraphAcyclic ==
    /\ \A i, j \in 1..Len(trail) : trail[i] = trail[j] => i = j
    /\ Len(trail) - 1 <= 6
    /\ (Len(trail) - 1 = 6 /\ orderOp.op = "change_status"
           /\ orderOp.pre.status = order.status)
          => orderOp.error = "ValueError"

\* C18 witness: a change_status made after six had succeeded, and rejected.
C18_Witness ==
    /\ Len(trail) = 7
    /\ orderOp.op = "change_status"
    /\ orderOp.pre.status = "REFUNDED"
    /\ orderOp.error = "ValueError"

\* C19: in each of the eight statuses can_be_cancelled() is true exactly in
\* DRAFT, PENDING, CONFIRMED, PROCESSING, can_be_modified() exactly in DRAFT,
\* PENDING, and is_completed() exactly in DELIVERED, REFUNDED.
C19_StatusPredicates ==
    /\ orderOp.op = "can_be_cancelled" =>
           orderOp.ret = IF order.status = "DRAFT" \/ order.status = "PENDING"
                            \/ order.status = "CONFIRMED"
                            \/ order.status = "PROCESSING"
                         THEN "True" ELSE "False"
    /\ orderOp.op = "can_be_modified" =>
           orderOp.ret = IF order.status = "DRAFT" \/ order.status = "PENDING"
                         THEN "True" ELSE "False"
    /\ orderOp.op = "is_completed" =>
           orderOp.ret = IF order.status = "DELIVERED" \/ order.status = "REFUNDED"
                         THEN "True" ELSE "False"

\* C19 witness: can_be_cancelled() returned false on a SHIPPED order.
C19_Witness ==
    /\ orderOp.op = "can_be_cancelled"
    /\ order.status = "SHIPPED"
    /\ orderOp.ret = "False"

\* C20: a.can_manage(b) is true exactly when a is MANAGER or ADMIN and b is
\* not ACCOUNTANT, or a is SUPERVISOR and b is none of MANAGER, ADMIN,
\* ACCOUNTANT; every other role manages no one.
C20_CanManage ==
    employeeOp.op = "can_manage" =>
        LET a == employee.role
            b == employeeOp.arg
            claimed == \/ (a = "MANAGER" \/ a = "ADMIN") /\ b # "ACCOUNTANT"
                       \/ a = "SUPERVISOR"
                          /\ b # "MANAGER" /\ b # "ADMIN" /\ b # "ACCOUNTANT"
        IN /\ employeeOp.ret = IF claimed THEN "True" ELSE "False"
           /\ a \notin {"MANAGER", "ADMIN", "SUPERVISOR"} => employeeOp.ret = "False"

\* C20 witness: a supervisor was asked about a supervisor, and may manage them.
C20_Witness ==
    /\ employeeOp.op = "can_manage"
    /\ employee.role = "SUPERVISOR"
    /\ employeeOp.arg = "SUPERVISOR"
    /\ employeeOp.ret = "True"

\* C21: the task list holds no task twice; assign_task of an assigned task
\* leaves the list unchanged; remove_task returns true and removes the task
\* exactly when it was assigned, and false with the list unchanged otherwise.
C21_TaskList ==
    LET tasks == employee.assigned_tasks
        before == employeeOp.pre.assigned_tasks
        task == employeeOp.arg
        assigned == \E i \in 1..Len(before) : before[i] = task
    IN /\ \A i, j \in 1..Len(tasks) : tasks[i] = tasks[j] => i = j
       /\ (employeeOp.op = "assign_task" /\ assigned) => tasks = before
       /\ (employeeOp.op = "assign_task" /\ ~assigned) =>
              tasks = before \o <<task>>
       /\ employeeOp.op = "remove_task" =>
              IF assigned
              THEN /\ employeeOp.ret = "True"
                   /\ Len(tasks) = Len(before) - 1
                   /\ \A i \in 1..Len(tasks) : tasks[i] # task
                   /\ \A i \in 1..Len(before) :
                          before[i] # task => \E j \in 1..Len(tasks) : tasks[j] = before[i]
              ELSE employeeOp.ret = "False" /\ tasks = before

\* C21 witness: assign_task of a task the employee already had, next to another.
C21_Witness ==
    /\ employeeOp.op = "assign_task"
    /\ Len(employeeOp.pre.assigned_tasks) = 2
    /\ employeeOp.arg = employeeOp.pre.assigned_tasks[1]
    /\ employee.assigned_tasks = employeeOp.pre.assigned_tasks

\* (m1 + m2) - m2 was computed: the last operation took m2 from the sum that
\* the operation before it made of m1 and m2.
SumThenDifference ==
    /\ moneyOp.op = "sub"
    /\ Len(moneyOp.prior) = 1
    /\ moneyOp.other = moneyOp.prior[1].other

\* The operands of the last operation are as they were before it.
OperandsKept == moneyOp.after = <<moneyOp.self, moneyOp.other>>

Significant(d) ==
    LET nz == {i \in 1..Len(d) : d[i] # 0}
    IN IF nz = {} THEN <<>>
       ELSE SubSeq(d, CHOOSE i \in nz : \A j \in nz : i <= j,
                      CHOOSE i \in nz : \A j \in nz : i >= j)

\* x, and x + y where y is given, take no more digits than the context keeps.
Exact(x) == Len(Significant(x.digits)) <= DecimalPrec
ExactSum(x, y) ==
    LET al == Aligned(x, y)
        sum == IF x.sign = y.sign THEN DigitsAdd(al.a, al.b)
               ELSE IF DigitsLess(al.a, al.b) THEN DigitsSub(al.b, al.a)
               ELSE DigitsSub(al.a, al.b)
    IN Len(Significant(sum)) <= DecimalPrec

C23_MoneyErrors ==
    /\ (moneyOp.op \in {"add", "sub"}
           /\ moneyOp.self.currency # moneyOp.other.currency) =>
           moneyOp.error = "ValueError"
    /\ (moneyOp.op = "truediv" /\ moneyOp.n = 0) => moneyOp.error = "ValueError"

\* C23 witness: an addition of USD 0 and EUR 0 that failed.
C23_Witness ==
    /\ moneyOp.op = "add"
    /\ moneyOp.self = Money(Decimal(<<0>>, 0), "USD")
    /\ moneyOp.other = Money(Decimal(<<0>>, 0), "EUR")
    /\ moneyOp.error = "ValueError"

\* The keys layer i of the chain writes, and the value it writes under key k.
LayerDetails(i) ==
    OwnDetails(chain, i, chainOp.pre,
               IF "featured_since" \in DOMAIN chainOp.result
               THEN chainOp.result["featured_since"] ELSE 0)

\* C24: get_details() of the outermost of N decorators holds every field of the
\* base product and of each of the N layers, with the value the layer gave it,
\* and decorated_product followed N times reaches the base Product.
C24_ChainDetails ==
    /\ chainOp.op = "get_details" =>
           /\ \A k \in DOMAIN Product_get_details(chainOp.pre) :
                  /\ k \in DOMAIN chainOp.result
                  /\ chainOp.result[k] = Product_get_details(chainOp.pre)[k]
           /\ \A i \in 1..chainOp.depth :
                  \A k \in DOMAIN LayerDetails(i) \ {"featured_since"} :
                      /\ k \in DOMAIN chainOp.result
                      /\ chainOp.result[k] = LayerDetails(i)[k]
    /\ chainOp.op = "decorated_product" => chainOp.result = 0

\* C25: name, category, quantity and selling_price read through the chain are
\* the base product's current values, and get_details() and
\* get_selling_price() leave the base product as it was.
C25_ChainReadsBase ==
    /\ (chainOp.op = "getattr"
           /\ chainOp.arg \in {"name", "category", "quantity", "selling_price"}) =>
           /\ chainOp.error = "none"
           /\ chainOp.result = chainOp.pre[chainOp.arg]
    /\ chainOp.op \in {"get_details", "get_selling_price"} =>
           chainOp.post = chainOp.pre
    /\ chainOp.op = "get_details" =>
           /\ chainOp.result["quantity"] = chainOp.pre.quantity
           /\ chainOp.result["selling_price"] = <<"USD", chainOp.pre.selling_price * 100>>

\* C25 witness: the quantity read through two decorators after the base
\* product's stock went from 3 to 1.
C25_Witness ==
    /\ chainOp.op = "getattr"
    /\ chainOp.arg = "quantity"
    /\ chainOp.depth = 2
    /\ productOp.op = "decrease_quantity"
    /\ productOp.pre.quantity = 3
    /\ chainOp.result = 1

StepOrder == <<"validate", "collect", "process", "format", "save">>

\* C26: a generate_report() run makes its steps in the order validate, collect,
\* process, format, save, each once; process receives what collect returned,
\* format what process returned, save the report that format made and that the
\* run returns; after a step that failed no step is made.
C26_TemplateOrder ==
    LET log == report.log
    IN /\ Len(log) <= 5
       /\ \A i \in 1..Len(log) : log[i].step = StepOrder[i]
       /\ \A i \in 1..(Len(log) - 1) : log[i].error = "none"
       /\ Len(log) >= 3 => log[3].received = log[2].returned
       /\ Len(log) >= 4 => log[4].received = log[3].returned
       /\ Len(log) >= 5 => log[5].received = log[4].returned
       /\ report.pc = "done" =>
              /\ Len(log) = 5 /\ log[5].error = "none"
              /\ report.returned = log[4].returned
       /\ report.pc = "failed" => log[Len(log)].error # "none"
       /\ report.pc \in {"collect", "process", "format", "save"} =>
              (log[Len(log)].error = "none" /\ StepOrder[Len(log) + 1] = report.pc)

\* C26 witness: a run that returned the report made of "summary X".
C26_Witness ==
    /\ report.pc = "done"
    /\ report.log[2].returned = <<"rows A">>
    /\ report.returned[1].data = "summary X"

\* The quantity the order holds for product id: 0 when it has no such item.
Ordered(o, id) == IF id \in DOMAIN o.items THEN o.items[id].quantity ELSE 0

\* C29: as long as the stock of the product has not changed since it was made,
\* an add_item call for it on an order that held no more of the product than
\* its stock leaves the order holding no more of it than its stock.
C29_CumulativeWithinStock ==
    (/\ productOp.op = "init"
     /\ orderOp.op = "add_item"
     /\ orderOp.args.product = product
     /\ Ordered(orderOp.pre, product.id) <= product.quantity)
        => Ordered(order, product.id) <= product.quantity

\* C27: a process_order call that fails leaves every product quantity and the
\* order as they were; product quantities change only in a call that leaves
\* the order PROCESSING.
C27_ProcessAllOrNothing ==
    useCaseOp.op = "process_order" =>
        /\ useCaseOp.error # "none" =>
               /\ products = useCaseOp.pre.products
               /\ orders = useCaseOp.pre.orders
        /\ products # useCaseOp.pre.products =>
               /\ useCaseOp.error = "none"
               /\ orders[useCaseOp.order_id].order.status = "PROCESSING"

\* The last call is a cancel_order on an order that process_order moved to
\* PROCESSING, with calls of the given kinds in between.
CancelAfter(kinds) ==
    /\ useCaseOp.op = "cancel_order"
    /\ useCaseOp.order_id \in DOMAIN useCaseOp.pre.orders
    /\ useCaseOp.pre.taken.since \in kinds
    /\ useCaseOp.pre.orders[useCaseOp.order_id].order.status = "PROCESSING"

\* Every product of the cancelled order holds its item quantity more than in
\* from.
Restored(from) ==
    LET items == useCaseOp.pre.orders[useCaseOp.order_id].order.items
    IN \A id \in DOMAIN items :
           /\ id \in DOMAIN products
           /\ products[id].quantity = from[id].quantity + items[id].quantity

\* C28: a cancel_order call on an order that process_order moved to
\* PROCESSING, with only restock_product calls in between, either returns with
\* the order CANCELLED and every product raised by its item quantity, or fails
\* with the order PROCESSING and no product changed; with no call in between it
\* returns with every product as it was before process_order.
C28_CancelRestores ==
    /\ CancelAfter({"none", "restock"}) =>
           \/ /\ useCaseOp.error = "none"
              /\ orders[useCaseOp.order_id].order.status = "CANCELLED"
              /\ Restored(useCaseOp.pre.products)
           \/ /\ useCaseOp.error # "none"
              /\ orders[useCaseOp.order_id].order.status = "PROCESSING"
              /\ products = useCaseOp.pre.products
    /\ CancelAfter({"none"}) =>
           /\ useCaseOp.error = "none"
           /\ products = useCaseOp.pre.taken.products

\* An order in status s.
OrderIn(s) == [Order_init EXCEPT !.status = s]

\* C30: in every status can_be_cancelled() is TRUE exactly when
\* change_status(CANCELLED) succeeds, and a cancel_order call that got past its
\* can_be_cancelled check and the restoring of stock returns with the order
\* CANCELLED.
C30_CancelPassesChangeStatus ==
    /\ \A s \in Statuses :
           Order_can_be_cancelled(OrderIn(s))
               <=> Order_change_status(OrderIn(s), "CANCELLED").error = "none"
    /\ (/\ useCaseOp.op = "cancel_order"
        /\ useCaseOp.stage \notin {"order", "can_be_cancelled", "increase_quantity"})
           => /\ useCaseOp.stage = "return"
              /\ useCaseOp.error = "none"
              /\ orders[useCaseOp.order_id].order.status = "CANCELLED"

\* C30 witness: a cancel_order call on a PROCESSING order restored stock and
\* returned.
C30_Witness ==
    /\ CancelAfter({"restock"})
    /\ useCaseOp.error = "none"
    /\ products # useCaseOp.pre.products
    /\ Len(orders[useCaseOp.order_id].keys) = 2

====
